---- MODULE Spec2Model ----
(***************************************************************************)
(* A model of the emoji picker's recently-used store (class RecentlyUsed,  *)
(* src/unnamed/part_000 lines 412-703) together with the localStorage item *)
(* it persists to.  Every static method of the class is one action; the    *)
(* environment contributes a page reload (Restart) and a write to the      *)
(* storage item from outside the class (ExternalWrite).  This is Spec.     *)
(*                                                                         *)
(* CopySpec models class EmojiCopyManager (src/js/emoji-copy-manager.js)   *)
(* on top of the store: copyEmoji in the steps its awaits cut it into, the *)
(* clipboard collaborator as an outcome, the copy listeners.  CatalogSpec  *)
(* models class EmojiData (src/js/emoji-data.js): its loading, its         *)
(* parseEmojiData and its queries; ValidationSpec applies the validations  *)
(* of add and of parseEmojiData; AccessorSpec lets the callers of          *)
(* getAllEmojis and get() assign to the arrays they were given.            *)
(* RestoreSpec takes reset() and load() as the one step the persistence    *)
(* test makes of them; OverlapSpec runs two copyEmoji calls at once;       *)
(* CommitSpec loads documents with a null element; ManagerSpec models      *)
(* class RecentlyUsedManager (src/js/recently-used.js) and GridSpec class  *)
(* EmojiGrid (src/unnamed/part_002) on top of EmojiData.  Each             *)
(* specification leaves the variables of the classes it does not model at  *)
(* their initial values.                                                   *)
(***************************************************************************)
EXTENDS Integers, Sequences, FiniteSets, TLC

(***************************************************************************)
(* Bounds of the model.                                                    *)
(***************************************************************************)
\* The value of the static field #maxEmojis after class initialisation.  The
\* code sets 20; the model scales it down so that lists longer than the
\* default are reachable.
DefaultMaxEmojis == 2
\* Largest argument given to setMaxEmojis.
MaxLimit == 3
\* Length up to which every "emojis" array of valid entries is found in an
\* item written from outside the class.
MaxStored == 1

\* Unicode strings of the emojis handed to add/contains/remove.
Unicodes == {"a", "b", "c"}
\* Values returned by Date.now() while the page runs; entries of items written
\* earlier, from outside, carry the timestamp 1.
Timestamps == {2}

(***************************************************************************)
(* Emoji objects.  An object is abstracted to its type ("object", or       *)
(* "null" for a value that is not an object), its unicode property, the    *)
(* set of own properties among the five required ones, and its timestamp   *)
(* (0 when the object has none).                                           *)
(***************************************************************************)
requiredProps == <<"unicode", "name", "category", "keywords", "codepoint">>

RequiredSet == {requiredProps[i] : i \in 1..Len(requiredProps)}

Emoji(u) == [type |-> "object", unicode |-> u, props |-> RequiredSet, timestamp |-> 0]

Entry(u, t) == [type |-> "object", unicode |-> u, props |-> RequiredSet, timestamp |-> t]

NullValue == [type |-> "null", unicode |-> "", props |-> {}, timestamp |-> 0]

Lacking(u, p) == [type |-> "object", unicode |-> u, props |-> RequiredSet \ {p}, timestamp |-> 0]

\* Arguments given to add: the valid emojis, objects lacking one property, and null.
AddInputs == {Emoji(u) : u \in Unicodes} \cup {Lacking("a", "name"), Lacking("", "unicode"), NullValue}

\* The object with unicode u that has none of the properties ps.
LackingAll(u, ps) == [type |-> "object", unicode |-> u, props |-> RequiredSet \ ps, timestamp |-> 0]

\* Arguments given to contains/remove: the unicode strings and the empty string.
UnicodeArgs == Unicodes \cup {""}

(***************************************************************************)
(* Helpers over sequences.                                                 *)
(***************************************************************************)
Min(a, b) == IF a < b THEN a ELSE b

\* Array.prototype.slice(0, n)
Slice(s, n) == SubSeq(s, 1, Min(n, Len(s)))

\* A filter that stops at the first match, dropping what follows it too.
WithoutUnicode_Truncating(s, u) ==
    IF \E i \in 1..Len(s) : s[i].unicode = u
    THEN SubSeq(s, 1, (CHOOSE i \in 1..Len(s) :
                          s[i].unicode = u /\ \A j \in 1..(i - 1) : s[j].unicode # u) - 1)
    ELSE s

\* Array.prototype.filter(existing => existing.unicode !== u)
WithoutUnicode(s, u) == SelectSeq(s, LAMBDA x : x.unicode # u)

\* Array.prototype.some(emoji => emoji.unicode === u)
HasUnicode(s, u) == \E i \in 1..Len(s) : s[i].unicode = u

UnicodesOf(s) == [i \in 1..Len(s) |-> s[i].unicode]

RECURSIVE SeqsUpTo(_, _)
SeqsUpTo(S, n) == IF n = 0 THEN {<<>>}
                  ELSE LET shorter == SeqsUpTo(S, n - 1)
                       IN shorter \cup {Append(s, x) : s \in {q \in shorter : Len(q) = n - 1}, x \in S}

(***************************************************************************)
(* The localStorage item under the key 'emoji-recently-used'.  kind tells  *)
(* what getItem and JSON.parse make of it: no item, a string JSON.parse    *)
(* rejects, JSON whose "emojis" is no array, or a document as save()       *)
(* writes it.                                                              *)
(***************************************************************************)
Missing == [kind |-> "missing", emojis |-> <<>>, version |-> "", lastUpdated |-> 0]

Unparseable == [kind |-> "unparseable", emojis |-> <<>>, version |-> "", lastUpdated |-> 0]

WrongShape == [kind |-> "wrongshape", emojis |-> <<>>, version |-> "", lastUpdated |-> 0]

\* JSON.stringify({emojis, version: '1.0', lastUpdated})
Document(list, t) == [kind |-> "doc", emojis |-> list, version |-> "1.0", lastUpdated |-> t]

\* Array elements of a document written from outside the class.
RawPool == {Entry("a", 1), Entry("b", 1)}

\* Two arrays of two valid entries: one repeats a unicode, one does not.
PairArrays == {<<Entry("a", 1), Entry("a", 1)>>, <<Entry("a", 1), Entry("b", 1)>>}

\* Two longer arrays that mix elements load() rejects among valid ones.
MixedArrays == {<<Entry("a", 1), Lacking("c", "codepoint"), Entry("b", 1)>>,
                <<NullValue, Entry("b", 1), Entry("a", 1)>>}

\* The items found in storage that the class did not write itself.
ExternalItems ==
    {Missing, Unparseable, WrongShape}
        \cup {Document(l, 1) : l \in SeqsUpTo(RawPool, MaxStored) \cup PairArrays \cup MixedArrays}

VARIABLES recentEmojis, maxEmojis, isLoaded, storage, last, run, savedList, hydrated

\* EmojiCopyManager: its static fields, the copyEmoji calls in flight, and
\* the copyEmoji call the latest step finished.
VARIABLES copyListeners, isInitialized, calls, lastCopy

\* EmojiData: its static fields, the loadEmojis calls in flight, and the
\* latest loadEmojis/reloadEmojis and parseEmojiData calls.
VARIABLES emojis, categories, emojisLoaded, loads, lastLoad, lastParse, lastQuery

\* The array an accessor handed to its caller, while the caller works on it.
VARIABLES held

VARIABLES recentlyUsed, maxItems, managerItem, lastManager

\* The two copyEmoji calls that finished last, for the claims on overlapping
\* calls.
VARIABLES finished

\* EmojiGrid: its fields, the position of its loadEmojis(), and its latest
\* call.
VARIABLES gridEmojis, filteredEmojis, currentCategory, searchQuery, gridLoad, lastGrid

storeVars == <<recentEmojis, maxEmojis, isLoaded, storage, last, run, savedList, hydrated>>

copyVars == <<copyListeners, isInitialized, calls, lastCopy>>

catalogVars == <<emojis, categories, emojisLoaded, loads, lastLoad, lastParse, lastQuery>>

callerVars == <<held>>

managerVars == <<recentlyUsed, maxItems, managerItem, lastManager>>

overlapVars == <<finished>>

gridVars == <<gridEmojis, filteredEmojis, currentCategory, searchQuery, gridLoad, lastGrid>>

uiVars == <<managerVars, overlapVars, gridVars>>

vars == <<storeVars, copyVars, catalogVars, callerVars, uiVars>>

(***************************************************************************)
(* The methods' computations, as operators.                                *)
(***************************************************************************)
\* #isValidEmojiObject
IsValidEmojiObject(emoji) ==
    /\ emoji.type = "object"
    /\ \A i \in 1..Len(requiredProps) : requiredProps[i] \in emoji.props

\* LoadOutcome without the slice of line 624.
LoadOutcome_NoSlice(item, max) ==
    IF item.kind = "missing" THEN [emojis |-> <<>>, ret |-> "true", loaded |-> FALSE]
    ELSE IF item.kind = "unparseable" THEN [emojis |-> <<>>, ret |-> "false", loaded |-> FALSE]
    ELSE IF item.kind = "wrongshape" THEN [emojis |-> <<>>, ret |-> "true", loaded |-> FALSE]
    ELSE [emojis |-> SelectSeq(item.emojis, IsValidEmojiObject), ret |-> "true", loaded |-> TRUE]

\* LoadOutcome with slice and filter of lines 622-624 in the other order.
LoadOutcome_SliceFirst(item, max) ==
    IF item.kind = "missing" THEN [emojis |-> <<>>, ret |-> "true", loaded |-> FALSE]
    ELSE IF item.kind = "unparseable" THEN [emojis |-> <<>>, ret |-> "false", loaded |-> FALSE]
    ELSE IF item.kind = "wrongshape" THEN [emojis |-> <<>>, ret |-> "true", loaded |-> FALSE]
    ELSE [emojis |-> SelectSeq(Slice(item.emojis, max), IsValidEmojiObject),
          ret |-> "true", loaded |-> TRUE]

\* load(): the list it leaves, what it returns, and whether it set #isLoaded.
LoadOutcome(item, max) ==
    IF item.kind = "missing" THEN [emojis |-> <<>>, ret |-> "true", loaded |-> FALSE]
    ELSE IF item.kind = "unparseable" THEN [emojis |-> <<>>, ret |-> "false", loaded |-> FALSE]
    ELSE IF item.kind = "wrongshape" THEN [emojis |-> <<>>, ret |-> "true", loaded |-> FALSE]
    ELSE [emojis |-> Slice(SelectSeq(item.emojis, IsValidEmojiObject), max),
          ret |-> "true", loaded |-> TRUE]

\* Hydrated without the test of #isLoaded: every access loads again.
Hydrated_Always(list, loaded, item, max) == LoadOutcome(item, max).emojis

\* "if (!this.#isLoaded) { this.initialize(); }": the list afterwards.
\* initialize() is async but awaits nothing, so its body (load(), then
\* #isLoaded = true) has run when the un-awaited call returns.
Hydrated(list, loaded, item, max) ==
    IF loaded THEN list ELSE LoadOutcome(item, max).emojis

\* SaveOutcome writing the copies get() returns instead of the entries.
SaveOutcome_PublicCopies(item, list, t, ok) ==
    IF ok THEN [item |-> Document([i \in 1..Len(list) |-> Emoji(list[i].unicode)], t),
                ret |-> "true"]
    ELSE [item |-> item, ret |-> "false"]

\* SaveOutcome without the catch of lines 594-597: the error of setItem escapes.
SaveOutcome_Uncaught(item, list, t, ok) ==
    IF ok THEN [item |-> Document(list, t), ret |-> "true"]
    ELSE [item |-> item, ret |-> "throw"]

\* save(): the item afterwards and what save returns; ok is FALSE when setItem throws.
SaveOutcome(item, list, t, ok) ==
    IF ok THEN [item |-> Document(list, t), ret |-> "true"]
    ELSE [item |-> item, ret |-> "false"]

\* AddError with the check of copyEmoji only: an object with a unicode passes.
AddError_UnicodeOnly(emoji) ==
    IF emoji.type # "object" THEN "Invalid emoji object provided"
    ELSE IF "unicode" \notin emoji.props THEN "Emoji object missing required property: unicode"
    ELSE ""

\* The message of the error add throws for its argument, "" when it throws none.
AddError(emoji) ==
    IF emoji.type # "object" THEN "Invalid emoji object provided"
    ELSE IF \E i \in 1..Len(requiredProps) : requiredProps[i] \notin emoji.props
    THEN LET i == CHOOSE j \in 1..Len(requiredProps) :
                    /\ requiredProps[j] \notin emoji.props
                    /\ \A k \in 1..(j - 1) : requiredProps[k] \in emoji.props
         IN "Emoji object missing required property: " \o requiredProps[i]
    ELSE ""

\* AddToList without the filter of lines 463-465: an entry with the same
\* unicode stays in the list.
AddToList_NoDedup(list, emoji, t, max) ==
    LET unshifted == <<Entry(emoji.unicode, t)>> \o list
    IN IF Len(unshifted) > max THEN Slice(unshifted, max) ELSE unshifted

\* AddToList without the cut of lines 471-473.
AddToList_NoLimit(list, emoji, t, max) ==
    <<Entry(emoji.unicode, t)>> \o WithoutUnicode(list, emoji.unicode)

\* AddToList with push in place of the unshift of line 468.
AddToList_Appending(list, emoji, t, max) ==
    Slice(WithoutUnicode(list, emoji.unicode) \o <<Entry(emoji.unicode, t)>>, max)

\* add, lines 452-473: the copy is put in front of the other entries and the
\* list cut to max.
AddToList(list, emoji, t, max) ==
    LET emojiCopy == Entry(emoji.unicode, t)
        unshifted == <<emojiCopy>> \o WithoutUnicode(list, emojiCopy.unicode)
    IN IF Len(unshifted) > max THEN Slice(unshifted, max) ELSE unshifted

\* get(): copies of the entries without their timestamp.
GetView(list) == [i \in 1..Len(list) |-> Emoji(list[i].unicode)]

Range(s) == {s[i] : i \in 1..Len(s)}

\* The static fields hold the values of lines 413-416: nothing has run yet.
Fresh == recentEmojis = <<>> /\ ~isLoaded /\ maxEmojis = DefaultMaxEmojis

\* What each operation leaves in the variable last.
Report(op, arg, n, ret, err, save, read, pre) ==
    [op |-> op, arg |-> arg, n |-> n, ret |-> ret, err |-> err, save |-> save, read |-> read,
     pre |-> pre, fresh |-> Fresh]

SaveTag(ret) == IF ret = "true" THEN "ok" ELSE "failed"

Bool(b) == IF b THEN "true" ELSE "false"

NoRun == <<"-">>

NoList == <<NullValue>>

(***************************************************************************)
(* EmojiCopyManager (src/js/emoji-copy-manager.js) and its collaborators.  *)
(***************************************************************************)
\* copyEmoji calls that may be in flight at once.
MaxCalls == 1

CallIds == 1..MaxCalls

\* Listener functions, named after what they do when called: return, throw,
\* or call their own unregister function (a listener for one event only).
Listeners == {"plain", "throws", "once"}

\* Arguments given to copyEmoji: a valid emoji, an object with a unicode that
\* add() rejects, an object without unicode, and null.
CopyInputs == {Emoji("b"), Lacking("c", "name"), Lacking("", "unicode"), NullValue}

\* What ClipboardManager.copyEmoji does: resolve to true or false, or throw.
ClipboardOutcomes == {"true", "false", "throw"}

\* error.message of what the clipboard collaborator throws
ClipboardError == "Failed to copy text to clipboard"

\* No call in the slot; no call finished by the latest step.
NoCall == [phase |-> "idle"]

NoCopy == [ret |-> "none"]

(***************************************************************************)
(* EmojiData (src/js/emoji-data.js).                                       *)
(***************************************************************************)
\* loadEmojis calls that may be in flight at once.
MaxLoads == 2

LoadIds == 1..MaxLoads

\* Text is a sequence of characters, so that lowercasing, trimming and the
\* substring tests of search are computed and not looked up.
UpperCase == [A |-> "a", C |-> "c", D |-> "d"]

ToLowerChar(ch) == IF ch \in DOMAIN UpperCase THEN UpperCase[ch] ELSE ch

\* String.prototype.toLowerCase
ToLowerCase(str) == [i \in 1..Len(str) |-> ToLowerChar(str[i])]

\* String.prototype.trim
Trim(str) ==
    LET inked == {i \in 1..Len(str) : str[i] # " "}
    IN IF inked = {} THEN <<>>
       ELSE SubSeq(str, CHOOSE i \in inked : \A j \in inked : i <= j,
                        CHOOSE i \in inked : \A j \in inked : i >= j)

\* String.prototype.startsWith and String.prototype.includes
StartsWith(str, sub) == Len(sub) <= Len(str) /\ SubSeq(str, 1, Len(sub)) = sub

Includes(str, sub) ==
    \E i \in 0..(Len(str) - Len(sub)) : SubSeq(str, i + 1, i + Len(sub)) = sub

\* A catalog record, abstracted to its unicode, name, category and keywords
\* (empty for a property it has not) and the set of own properties among
\* the five required ones.
CatalogEmoji(u, n, c, k) ==
    [unicode |-> u, name |-> n, category |-> c, keywords |-> k, props |-> RequiredSet]

Sun == CatalogEmoji("c", <<"s", "u", "n">>, "nature", << <<"h", "o", "t">> >>)

Orca == CatalogEmoji("d", <<"o", "r", "c", "a">>, "animals", << <<"s", "e", "a">> >>)

Dog == CatalogEmoji("a", <<"D", "o", "g">>, "animals",
                    << <<"c", "a", "n", "i", "n", "e">>, <<"p", "e", "t">> >>)

Cat == CatalogEmoji("b", <<"C", "a", "t">>, "animals",
                    << <<"p", "e", "t">>, <<"c", "a", "t">> >>)

Cab == CatalogEmoji("e", <<"c", "a", "b">>, "travel",
                    << <<"c", "a", "r">>, <<"c", "a", "t">>, <<"t", "a", "x", "i">> >>)

\* The record without the given properties.
Dropping(e, ps) ==
    [unicode |-> IF "unicode" \in ps THEN "" ELSE e.unicode,
     name |-> IF "name" \in ps THEN <<>> ELSE e.name,
     category |-> IF "category" \in ps THEN "" ELSE e.category,
     keywords |-> IF "keywords" \in ps THEN <<>> ELSE e.keywords,
     props |-> e.props \ ps]

\* Arguments given to parseEmojiData: complete records, and records lacking
\* one or two of the required fields.
ParseInputs == {Dog, Cat, Dropping(Dog, {"unicode"}), Dropping(Cat, {"category"}),
                Dropping(Dog, {"name", "codepoint"}), Dropping(Sun, {"keywords", "codepoint"})}

\* The "emojis" arrays the data provider serves; nothing validates them.
Zoo == <<Sun, Orca, Dog, Cat, Cab>>

Datasets == {Zoo, <<Cat, Dropping(Sun, {"category"}), Dropping(Dog, {"keywords"})>>}

\* What fetch and response.json() give, lines 19-24: a document with an
\* "emojis" array, a document without one, a body that is no JSON, a
\* response that is not ok, a rejected fetch.
Responses ==
    {[kind |-> "ok", emojis |-> d] : d \in Datasets}
        \cup {[kind |-> k, emojis |-> <<>>] : k \in {"noemojis", "badjson", "httperror", "network"}}

\* A null among the elements of an "emojis" array.
NullElement ==
    [null |-> TRUE, unicode |-> "", name |-> <<>>, category |-> "", keywords |-> <<>>,
     props |-> {}]

IsNullElement(e) == "null" \in DOMAIN e

\* A document whose "emojis" array has a null after its first element.
HoledResponse == [kind |-> "ok", emojis |-> <<Cat, NullElement, Sun>>]

\* A string argument, by its characters.
String(text) == [type |-> "string", text |-> text]

\* No call in the slot; no call in the latest step.
NoLoad == [phase |-> "idle"]

NoLoadCall == [op |-> "none"]

NoParse == [ret |-> "none"]

NoQuery == [op |-> "none"]

\* The caller holds no array an accessor returned.
NothingHeld == [from |-> "none"]

(***************************************************************************)
(* RecentlyUsedManager (src/js/recently-used.js).                          *)
(***************************************************************************)
\* maxItems as the constructor sets it (line 9: 20), scaled down.
DefaultMaxItems == 2

\* An element of the manager's array: what addEmoji builds (lines 71-75),
\* an object without a name, null.
Item(u, t) == [type |-> "object", emoji |-> u, name |-> "name", timestamp |-> t]

Nameless(u) == [type |-> "object", emoji |-> u, name |-> "", timestamp |-> 1]

NullItem == [type |-> "null", emoji |-> "", name |-> "", timestamp |-> 0]

\* The string under the manager's key, or given to importData: none, the
\* JSON of an array, the JSON of something else, no JSON at all.
NoItem == [kind |-> "missing", items |-> <<>>]

ArrayItem(list) == [kind |-> "array", items |-> list]

NotAnArray == [kind |-> "other", items |-> <<>>]

NoJson == [kind |-> "unparseable", items |-> <<>>]

\* Strings given to importData.
ImportInputs ==
    {ArrayItem(<<Item("a", 1), Item("a", 1)>>),
     ArrayItem(<<Item("c", 1), Item("b", 1), Item("a", 1)>>),
     ArrayItem(<<NullItem, Item("b", 1), Nameless("c")>>),
     NotAnArray, NoJson}

\* No call of the manager in the latest step.
NoManagerCall == [op |-> "none"]

(***************************************************************************)
(* EmojiGrid (src/unnamed/part_002).                                       *)
(***************************************************************************)
\* The category ids given to filterByCategory, and the texts given to
\* filterBySearch.
GridCategories == {"all", "animals", "nature"}

GridQueries == {String(<<>>), String(<<" ">>), String(<<"c", "a", "t">>), String(<<"o">>)}

\* What the data provider answers while the grid is on the page.
GridResponses == {[kind |-> "ok", emojis |-> <<Dog, Cat, Sun>>],
                  [kind |-> "httperror", emojis |-> <<>>]}

\* No call of the grid in the latest step.
NoGridCall == [op |-> "none", err |-> ""]

(***************************************************************************)
(* State: the class's static fields, the storage item, and history         *)
(* variables.  last records the latest call: its name, argument, return    *)
(* value ("throw" with the message in err), whether save() ran in it and   *)
(* what it returned, whether the item was read, the unicodes get() would   *)
(* have returned before the call, and whether the call found the static    *)
(* fields at their initial values.  run is the sequence of unicodes added  *)
(* by successive add calls, all distinct, since the list was empty; NoRun  *)
(* otherwise.  savedList is the list the latest successful save() wrote,   *)
(* while its item is still the one in storage, and NoList otherwise;       *)
(* hydrated holds once #isLoaded has been set since the page was loaded.   *)
(***************************************************************************)
InitFields ==
    /\ recentEmojis = <<>>
    /\ maxEmojis = DefaultMaxEmojis
    /\ isLoaded = FALSE
    /\ storage \in ExternalItems
    /\ last = [op |-> "none", arg |-> "", n |-> 0, ret |-> "undefined", err |-> "",
               save |-> "none", read |-> FALSE, pre |-> <<>>, fresh |-> TRUE]
    /\ run = NoRun
    /\ savedList = NoList
    /\ hydrated = FALSE
    /\ copyListeners = <<>>
    /\ isInitialized = FALSE
    /\ lastCopy = NoCopy
    /\ emojis = <<>>
    /\ categories = {}
    /\ emojisLoaded = FALSE
    /\ loads = [id \in LoadIds |-> NoLoad]
    /\ lastLoad = NoLoadCall
    /\ lastParse = NoParse
    /\ lastQuery = NoQuery
    /\ held = NothingHeld
    /\ recentlyUsed = <<>>
    /\ maxItems = DefaultMaxItems
    /\ managerItem = NoItem
    /\ lastManager = NoManagerCall
    /\ finished = <<>>
    /\ gridEmojis = <<>>
    /\ filteredEmojis = <<>>
    /\ currentCategory = "all"
    /\ searchQuery = String(<<>>)
    /\ gridLoad = "none"
    /\ lastGrid = NoGridCall

Init == InitFields /\ calls = [id \in CallIds |-> NoCall]

\* initialize(), lines 422-427
Initialize ==
    /\ recentEmojis' = Hydrated(recentEmojis, isLoaded, storage, maxEmojis)
    /\ isLoaded' = TRUE
    /\ hydrated' = TRUE
    /\ last' = Report("initialize", "", 0, "undefined", "", "none", ~isLoaded, <<>>)
    /\ run' = IF isLoaded THEN run ELSE NoRun
    /\ UNCHANGED <<maxEmojis, storage, savedList>>

\* add(emoji), lines 434-479.  t is what Date.now() returns at line 459 and,
\* inside save(), at line 589.
Add(emoji) ==
    \/ /\ AddError(emoji) # ""
       /\ last' = Report("add", emoji.unicode, 0, "throw", AddError(emoji), "none", FALSE, <<>>)
       /\ UNCHANGED <<recentEmojis, maxEmojis, isLoaded, storage, run, savedList, hydrated>>
    \/ /\ AddError(emoji) = ""
       /\ \E t \in Timestamps, ok \in BOOLEAN :
            LET before == Hydrated(recentEmojis, isLoaded, storage, maxEmojis)
                after == AddToList(before, emoji, t, maxEmojis)
                saved == SaveOutcome(storage, after, t, ok)
            IN /\ recentEmojis' = after
               /\ storage' = saved.item
               /\ savedList' = IF ok THEN after ELSE savedList
               /\ last' = Report("add", emoji.unicode, 0, "true", "", SaveTag(saved.ret),
                                 ~isLoaded, UnicodesOf(before))
               /\ run' = IF before = <<>> THEN <<emoji.unicode>>
                         ELSE IF run # NoRun /\ emoji.unicode \notin Range(run)
                              THEN Append(run, emoji.unicode)
                              ELSE NoRun
       /\ isLoaded' = TRUE
       /\ hydrated' = TRUE
       /\ UNCHANGED maxEmojis

\* get(), lines 485-498; the array returned is GetView(recentEmojis').
Get ==
    /\ recentEmojis' = Hydrated(recentEmojis, isLoaded, storage, maxEmojis)
    /\ isLoaded' = TRUE
    /\ hydrated' = TRUE
    /\ last' = Report("get", "", 0, "array", "", "none", ~isLoaded, <<>>)
    /\ run' = IF isLoaded THEN run ELSE NoRun
    /\ UNCHANGED <<maxEmojis, storage, savedList>>

\* getCount(), lines 545-551
GetCount ==
    /\ recentEmojis' = Hydrated(recentEmojis, isLoaded, storage, maxEmojis)
    /\ isLoaded' = TRUE
    /\ hydrated' = TRUE
    /\ last' = Report("getCount", "", Len(recentEmojis'), "number", "", "none", ~isLoaded, <<>>)
    /\ run' = IF isLoaded THEN run ELSE NoRun
    /\ UNCHANGED <<maxEmojis, storage, savedList>>

\* contains(unicode), lines 529-539
Contains(unicode) ==
    \/ /\ unicode = ""
       /\ last' = Report("contains", unicode, 0, "false", "", "none", FALSE, <<>>)
       /\ UNCHANGED <<recentEmojis, maxEmojis, isLoaded, storage, run, savedList, hydrated>>
    \/ /\ unicode # ""
       /\ recentEmojis' = Hydrated(recentEmojis, isLoaded, storage, maxEmojis)
       /\ isLoaded' = TRUE
       /\ hydrated' = TRUE
       /\ last' = Report("contains", unicode, 0, Bool(HasUnicode(recentEmojis', unicode)), "",
                         "none", ~isLoaded, <<>>)
       /\ run' = IF isLoaded THEN run ELSE NoRun
       /\ UNCHANGED <<maxEmojis, storage, savedList>>

\* remove(unicode), lines 558-578
Remove(unicode) ==
    \/ /\ unicode = ""
       /\ last' = Report("remove", unicode, 0, "throw", "Invalid unicode provided", "none",
                         FALSE, <<>>)
       /\ UNCHANGED <<recentEmojis, maxEmojis, isLoaded, storage, run, savedList, hydrated>>
    \/ /\ unicode # ""
       /\ \E t \in Timestamps, ok \in BOOLEAN :
            LET before == Hydrated(recentEmojis, isLoaded, storage, maxEmojis)
                after == WithoutUnicode(before, unicode)
                wasRemoved == Len(after) < Len(before)
                saved == SaveOutcome(storage, after, t, ok)
            IN /\ recentEmojis' = after
               /\ storage' = IF wasRemoved THEN saved.item ELSE storage
               /\ savedList' = IF wasRemoved /\ ok THEN after ELSE savedList
               /\ last' = Report("remove", unicode, 0, Bool(wasRemoved), "",
                                 IF wasRemoved THEN SaveTag(saved.ret) ELSE "none",
                                 ~isLoaded, UnicodesOf(before))
       /\ isLoaded' = TRUE
       /\ hydrated' = TRUE
       /\ run' = NoRun
       /\ UNCHANGED maxEmojis

\* Clear without the save() of line 520.
Clear_NoSave ==
    /\ recentEmojis' = <<>>
    /\ last' = Report("clear", "", 0, "true", "", "none", FALSE, UnicodesOf(recentEmojis))
    /\ run' = NoRun
    /\ UNCHANGED <<maxEmojis, isLoaded, hydrated, storage, savedList>>

\* clear(), lines 518-522
Clear ==
    /\ \E t \in Timestamps, ok \in BOOLEAN :
         LET saved == SaveOutcome(storage, <<>>, t, ok)
         IN /\ storage' = saved.item
            /\ savedList' = IF ok THEN <<>> ELSE savedList
            /\ last' = Report("clear", "", 0, "true", "", SaveTag(saved.ret), FALSE,
                              UnicodesOf(recentEmojis))
    /\ recentEmojis' = <<>>
    /\ run' = NoRun
    /\ UNCHANGED <<maxEmojis, isLoaded, hydrated>>

\* save(), lines 584-598
Save ==
    /\ \E t \in Timestamps, ok \in BOOLEAN :
         LET saved == SaveOutcome(storage, recentEmojis, t, ok)
         IN /\ storage' = saved.item
            /\ savedList' = IF ok THEN recentEmojis ELSE savedList
            /\ last' = Report("save", "", 0, saved.ret, "", SaveTag(saved.ret), FALSE, <<>>)
    /\ UNCHANGED <<recentEmojis, maxEmojis, isLoaded, run, hydrated>>

\* load(), lines 604-633
Load ==
    LET out == LoadOutcome(storage, maxEmojis)
    IN /\ recentEmojis' = out.emojis
       /\ isLoaded' = (isLoaded \/ out.loaded)
       /\ hydrated' = (hydrated \/ out.loaded)
       /\ last' = Report("load", "", 0, out.ret, "", "none", TRUE, <<>>)
       /\ run' = NoRun
       /\ UNCHANGED <<maxEmojis, storage, savedList>>

\* setMaxEmojis(max), lines 669-681
SetMaxEmojis(max) ==
    \/ /\ max < 1
       /\ last' = Report("setMaxEmojis", "", max, "throw", "Max emojis must be a positive number",
                         "none", FALSE, <<>>)
       /\ UNCHANGED <<recentEmojis, maxEmojis, isLoaded, storage, run, savedList, hydrated>>
    \/ /\ max >= 1
       /\ maxEmojis' = max
       /\ \E t \in Timestamps, ok \in BOOLEAN :
            LET trim == Len(recentEmojis) > max
                after == IF trim THEN Slice(recentEmojis, max) ELSE recentEmojis
                saved == SaveOutcome(storage, after, t, ok)
            IN /\ recentEmojis' = after
               /\ storage' = IF trim THEN saved.item ELSE storage
               /\ savedList' = IF trim /\ ok THEN after ELSE savedList
               /\ last' = Report("setMaxEmojis", "", max, "undefined", "",
                                 IF trim THEN SaveTag(saved.ret) ELSE "none", FALSE,
                                 UnicodesOf(recentEmojis))
       /\ run' = NoRun
       /\ UNCHANGED <<isLoaded, hydrated>>

\* reset(), lines 694-702; ok is FALSE when removeItem throws.
Reset ==
    /\ recentEmojis' = <<>>
    /\ isLoaded' = FALSE
    /\ \E ok \in BOOLEAN :
         /\ storage' = IF ok THEN Missing ELSE storage
         /\ savedList' = IF ok THEN NoList ELSE savedList
    /\ last' = Report("reset", "", 0, "undefined", "", "none", FALSE, <<>>)
    /\ run' = NoRun
    /\ UNCHANGED <<maxEmojis, hydrated>>

\* The page is loaded anew: the static fields take their initial values
\* (lines 413-416), the storage item stays.
Restart ==
    /\ recentEmojis' = <<>>
    /\ maxEmojis' = DefaultMaxEmojis
    /\ isLoaded' = FALSE
    /\ hydrated' = FALSE
    /\ last' = Report("restart", "", 0, "undefined", "", "none", FALSE, <<>>)
    /\ run' = NoRun
    /\ UNCHANGED <<storage, savedList>>

\* The item is written from outside the class (another tab, the user).
ExternalWrite(item) ==
    /\ storage' = item
    /\ savedList' = NoList
    /\ last' = Report("external", "", 0, "undefined", "", "none", FALSE, <<>>)
    /\ UNCHANGED <<recentEmojis, maxEmojis, isLoaded, run, hydrated>>

\* The operations of RecentlyUsed, called directly; they do not touch the
\* other two classes.
Next ==
    \/ Initialize /\ UNCHANGED <<copyVars, catalogVars, callerVars, uiVars>>
    \/ \E emoji \in AddInputs : Add(emoji) /\ UNCHANGED <<copyVars, catalogVars, callerVars, uiVars>>
    \/ Get /\ UNCHANGED <<copyVars, catalogVars, callerVars, uiVars>>
    \/ GetCount /\ UNCHANGED <<copyVars, catalogVars, callerVars, uiVars>>
    \/ \E unicode \in UnicodeArgs :
          Contains(unicode) /\ UNCHANGED <<copyVars, catalogVars, callerVars, uiVars>>
    \/ \E unicode \in UnicodeArgs :
          Remove(unicode) /\ UNCHANGED <<copyVars, catalogVars, callerVars, uiVars>>
    \/ Clear /\ UNCHANGED <<copyVars, catalogVars, callerVars, uiVars>>
    \/ Save /\ UNCHANGED <<copyVars, catalogVars, callerVars, uiVars>>
    \/ Load /\ UNCHANGED <<copyVars, catalogVars, callerVars, uiVars>>
    \/ \E max \in 0..MaxLimit : SetMaxEmojis(max) /\ UNCHANGED <<copyVars, catalogVars, callerVars, uiVars>>
    \/ Reset /\ UNCHANGED <<copyVars, catalogVars, callerVars, uiVars>>
    \/ Restart /\ UNCHANGED <<copyVars, catalogVars, callerVars, uiVars>>
    \/ \E item \in ExternalItems :
          ExternalWrite(item) /\ UNCHANGED <<copyVars, catalogVars, callerVars, uiVars>>

Spec == Init /\ [][Next]_vars

(***************************************************************************)
(* EmojiCopyManager.  A copyEmoji call is in flight from its start until   *)
(* the clipboard collaborator settles; calls[id] holds its position (at    *)
(* the await of line 54 or of line 58), its emoji and its addToRecent      *)
(* option.  copyListeners is the array #copyListeners.  lastCopy is the    *)
(* call the latest step finished: its arguments, what the clipboard        *)
(* collaborator did ("none" when it was not called), what the call         *)
(* returned or threw, and the events it dispatched, each with its success  *)
(* flag, its error, its emoji, the listeners registered when its dispatch  *)
(* began and the listeners called, and in seen the recently-used list as   *)
(* the listeners of its first event found it.  lastCopy is NoCopy after a  *)
(* step that finished no call.                                             *)
(***************************************************************************)
\* CopyError without the check of lines 47-49.
CopyError_ObjectOnly(emoji) ==
    IF emoji.type # "object" THEN "Invalid emoji object provided" ELSE ""

\* The validation of copyEmoji, lines 43-49: the message thrown, "" if none.
CopyError(emoji) ==
    IF emoji.type # "object" THEN "Invalid emoji object provided"
    ELSE IF emoji.unicode = "" THEN "Emoji object must have unicode property"
    ELSE ""

\* indexOf and splice of lines 283-286: the first occurrence goes.
RemoveListener(arr, listener) ==
    IF \E i \in 1..Len(arr) : arr[i] = listener
    THEN LET index == CHOOSE i \in 1..Len(arr) :
                          arr[i] = listener /\ \A j \in 1..(i - 1) : arr[j] # listener
         IN SubSeq(arr, 1, index - 1) \o SubSeq(arr, index + 1, Len(arr))
    ELSE arr

\* forEach of line 337 from index k on.  It visits the indexes below the
\* length the array had when it began, as far as the array still has them;
\* a listener that unregisters itself moves the later ones one place down.
\* The exception of a listener is caught at line 340.
RECURSIVE ForEach(_, _, _, _)
ForEach(arr, k, len, called) ==
    IF k > len \/ k > Len(arr) THEN [listeners |-> arr, called |-> called, thrown |-> ""]
    ELSE ForEach(IF arr[k] = "once" THEN RemoveListener(arr, arr[k]) ELSE arr,
                 k + 1, len, Append(called, arr[k]))

\* ForEach without the try/catch of lines 338-342.
RECURSIVE ForEach_NoCatch(_, _, _, _)
ForEach_NoCatch(arr, k, len, called) ==
    IF k > len \/ k > Len(arr) THEN [listeners |-> arr, called |-> called, thrown |-> ""]
    ELSE IF arr[k] = "throws"
    THEN [listeners |-> arr, called |-> Append(called, arr[k]), thrown |-> "listener failed"]
    ELSE ForEach_NoCatch(IF arr[k] = "once" THEN RemoveListener(arr, arr[k]) ELSE arr,
                         k + 1, len, Append(called, arr[k]))

\* NotifyListeners that lets the exception of a listener out.
NotifyListeners_NoCatch(arr) == ForEach_NoCatch(arr, 1, Len(arr), <<>>)

\* #notifyListeners, lines 336-344: the array it leaves, the listeners it
\* called, and the message of an exception that left it ("" if none).
NotifyListeners(arr) == ForEach(arr, 1, Len(arr), <<>>)

\* AddsToRecent without the test of line 62.
AddsToRecent_IgnoringOption(outcome, addToRecent) == outcome = "true"

\* AddsToRecent that never holds.
AddsToRecent_Never(outcome, addToRecent) == FALSE

\* Lines 60-62: RecentlyUsed.add is called when the collaborator reported
\* success and the option addToRecent is set.
AddsToRecent(outcome, addToRecent) == outcome = "true" /\ addToRecent

\* AddEscapes without the try/catch of lines 63-68.
AddEscapes_Uncaught(emoji) == AddError(emoji)

\* The message of the exception of RecentlyUsed.add that leaves the
\* try/catch of lines 63-68: none does.
AddEscapes(emoji) == ""

\* CopyEvent that reports every copy as a success.
CopyEvent_AlwaysSuccess(emoji, success, error, registered, called) ==
    [type |-> "copy", emoji |-> emoji, success |-> TRUE, error |-> "",
     registered |-> registered, called |-> called]

\* The event data of lines 72-76, 85-90 and 94-99, with the listeners
\* registered when the dispatch began and those it called.
CopyEvent(emoji, success, error, registered, called) ==
    [type |-> "copy", emoji |-> emoji, success |-> success, error |-> error,
     registered |-> registered, called |-> called]

\* SeenByListeners with the notification of lines 72-76 moved before the
\* add of lines 61-69.
SeenByListeners_BeforeAdd(before, after) == before

\* The list a listener finds during the dispatch of lines 72-76, given the
\* list before and after lines 61-69: these lines have run by then.
SeenByListeners(before, after) == after

\* copyEmoji(emoji, options) up to its first await, lines 36-58.  A call that
\* fails the validation ends at once; another one waits for initialize(),
\* which has run RecentlyUsed.initialize() (line 22), or, the manager being
\* initialized, for the clipboard collaborator.
CopyEmoji(id, emoji, addToRecent) ==
    /\ calls[id] = NoCall
    /\ \A other \in CallIds : other < id => calls[other] # NoCall
    /\ \/ /\ CopyError(emoji) # ""
          /\ lastCopy' = [emoji |-> emoji, addToRecent |-> addToRecent, clipboard |-> "none",
                          ret |-> "throw", err |-> CopyError(emoji), events |-> <<>>]
          /\ UNCHANGED <<storeVars, copyListeners, isInitialized, calls>>
       \/ /\ CopyError(emoji) = ""
          /\ calls' = [calls EXCEPT ![id] =
                          [phase |-> IF isInitialized THEN "clipboard" ELSE "initialize",
                           emoji |-> emoji, addToRecent |-> addToRecent]]
          /\ IF isInitialized THEN UNCHANGED storeVars ELSE Initialize
          /\ lastCopy' = NoCopy
          /\ UNCHANGED <<copyListeners, isInitialized>>

\* initialize() resumes after its await, lines 24-25, and copyEmoji after
\* its own: it calls the clipboard collaborator, lines 57-58.
Initialized(id) ==
    /\ calls[id].phase = "initialize"
    /\ isInitialized' = TRUE
    /\ calls' = [calls EXCEPT ![id].phase = "clipboard"]
    /\ lastCopy' = NoCopy
    /\ UNCHANGED <<storeVars, copyListeners>>

\* The clipboard collaborator settles and copyEmoji runs to its end, lines
\* 60-101.  An exception inside the try block (early: before the first
\* #notifyListeners; or out of #notifyListeners) reaches the catch block of
\* line 93.  #showCopyFeedback
\* (lines 351-363) writes to the console and dispatches a DOM event, whose
\* listeners cannot make dispatchEvent throw: it changes nothing here.
ClipboardSettles(id, outcome) ==
    /\ calls[id].phase = "clipboard"
    /\ LET call == calls[id]
           adds == AddsToRecent(outcome, call.addToRecent)
           early == IF outcome = "throw" THEN ClipboardError
                    ELSE IF adds THEN AddEscapes(call.emoji)
                    ELSE ""
           tried == IF early # ""
                    THEN [listeners |-> copyListeners, called |-> <<>>, thrown |-> early]
                    ELSE NotifyListeners(copyListeners)
           first == IF early # "" THEN <<>>
                    ELSE <<CopyEvent(call.emoji, outcome = "true",
                                     IF outcome = "true" THEN "" ELSE "Copy operation failed",
                                     copyListeners, tried.called)>>
           caught == NotifyListeners(tried.listeners)
       IN /\ IF adds
             THEN Add(call.emoji)
             ELSE UNCHANGED storeVars
          /\ IF tried.thrown = ""
             THEN /\ copyListeners' = tried.listeners
                  /\ lastCopy' = [emoji |-> call.emoji, addToRecent |-> call.addToRecent,
                                  clipboard |-> outcome, ret |-> Bool(outcome = "true"),
                                  err |-> "", events |-> first,
                                  seen |-> SeenByListeners(recentEmojis, recentEmojis')]
             ELSE /\ copyListeners' = caught.listeners
                  /\ lastCopy' = [emoji |-> call.emoji, addToRecent |-> call.addToRecent,
                                  clipboard |-> outcome, ret |-> "throw",
                                  err |-> IF caught.thrown = "" THEN tried.thrown
                                          ELSE caught.thrown,
                                  events |-> Append(first,
                                      CopyEvent(call.emoji, FALSE, tried.thrown,
                                                tried.listeners, caught.called)),
                                  seen |-> SeenByListeners(recentEmojis, recentEmojis')]
    /\ calls' = [calls EXCEPT ![id] = NoCall]
    /\ UNCHANGED isInitialized

\* addCopyListener(listener), lines 274-288, with a function that is not in
\* the array.
AddCopyListener(listener) ==
    /\ \A i \in 1..Len(copyListeners) : copyListeners[i] # listener
    /\ copyListeners' = Append(copyListeners, listener)
    /\ lastCopy' = NoCopy
    /\ UNCHANGED <<storeVars, isInitialized, calls>>

\* The function addCopyListener returned for the listener is called, lines
\* 282-287, by someone other than the listener itself.
Unregister(listener) ==
    /\ \E i \in 1..Len(copyListeners) : copyListeners[i] = listener
    /\ copyListeners' = RemoveListener(copyListeners, listener)
    /\ lastCopy' = NoCopy
    /\ UNCHANGED <<storeVars, isInitialized, calls>>

\* Items found in storage when the page with the copy manager is opened.
CopyItems == {Missing, Document(<<Entry("a", 1), Entry("b", 1)>>, 1),
              Document(<<Entry("b", 1), Entry("b", 1)>>, 1)}

CopyInit == Init /\ storage \in CopyItems

CopyNext ==
    \/ \E id \in CallIds, emoji \in CopyInputs, addToRecent \in BOOLEAN :
          CopyEmoji(id, emoji, addToRecent) /\ UNCHANGED <<catalogVars, callerVars, uiVars>>
    \/ \E id \in CallIds : Initialized(id) /\ UNCHANGED <<catalogVars, callerVars, uiVars>>
    \/ \E id \in CallIds, outcome \in ClipboardOutcomes :
          ClipboardSettles(id, outcome) /\ UNCHANGED <<catalogVars, callerVars, uiVars>>
    \/ \E listener \in Listeners :
          AddCopyListener(listener) /\ UNCHANGED <<catalogVars, callerVars, uiVars>>
    \/ \E listener \in Listeners : Unregister(listener) /\ UNCHANGED <<catalogVars, callerVars, uiVars>>

CopySpec == CopyInit /\ [][CopyNext]_vars

(***************************************************************************)
(* EmojiData.  A loadEmojis call that fetches is in flight until the       *)
(* fetch and then response.json() settle; loads[id] holds its position and *)
(* the response it got.  lastLoad is the loadEmojis/reloadEmojis call the  *)
(* latest step started or finished: whether it found #isLoaded set,        *)
(* whether it called fetch, and what it returned or threw ("pending"       *)
(* while in flight).  lastParse is the parseEmojiData call of the latest   *)
(* step.  Either is reset by a step that is no such call.                  *)
(***************************************************************************)
requiredFields == <<"unicode", "name", "category", "keywords", "codepoint">>

\* The loop of lines 75-79: the message thrown, "" if none.
ParseError(emojiData) ==
    IF \E i \in 1..Len(requiredFields) : requiredFields[i] \notin emojiData.props
    THEN LET i == CHOOSE j \in 1..Len(requiredFields) :
                    /\ requiredFields[j] \notin emojiData.props
                    /\ \A k \in 1..(j - 1) : requiredFields[k] \in emojiData.props
         IN "Missing required field: " \o requiredFields[i]
    ELSE ""

\* The object of lines 81-87
Normalized(emojiData) ==
    [unicode |-> emojiData.unicode, name |-> ToLowerCase(emojiData.name),
     category |-> emojiData.category, keywords |-> emojiData.keywords, props |-> RequiredSet]

\* parseEmojiData(emojiData), lines 72-88
ParseEmojiData(emojiData) ==
    /\ lastQuery' = NoQuery
    /\ lastParse' = IF ParseError(emojiData) # ""
                    THEN [input |-> emojiData, ret |-> "throw", err |-> ParseError(emojiData),
                          value |-> emojiData]
                    ELSE [input |-> emojiData, ret |-> "object", err |-> "",
                          value |-> Normalized(emojiData)]
    /\ lastLoad' = NoLoadCall
    /\ UNCHANGED <<emojis, categories, emojisLoaded, loads>>

\* The categories of lines 28-33
CategoriesOf(list) == {list[i].category : i \in {j \in 1..Len(list) : list[j].category # ""}}

\* LoadEmojis without the test of lines 14-16.
LoadEmojis_NoCache(id) ==
    /\ lastQuery' = NoQuery
    /\ loads[id] = NoLoad
    /\ \A other \in LoadIds : other < id => loads[other] # NoLoad
    /\ lastParse' = NoParse
    /\ lastLoad' = [op |-> "loadEmojis", foundLoaded |-> emojisLoaded, fetched |-> TRUE,
                    ret |-> "pending", value |-> <<>>, err |-> ""]
    /\ loads' = [loads EXCEPT ![id] = [phase |-> "fetch"]]
    /\ UNCHANGED <<emojis, categories, emojisLoaded>>

\* loadEmojis(), lines 13-19: the cached array, or a fetch is started.
LoadEmojis(id) ==
    /\ lastQuery' = NoQuery
    /\ loads[id] = NoLoad
    /\ \A other \in LoadIds : other < id => loads[other] # NoLoad
    /\ lastParse' = NoParse
    /\ IF emojisLoaded
       THEN /\ lastLoad' = [op |-> "loadEmojis", foundLoaded |-> TRUE, fetched |-> FALSE,
                            ret |-> "array", value |-> emojis, err |-> ""]
            /\ UNCHANGED <<emojis, categories, emojisLoaded, loads>>
       ELSE /\ lastLoad' = [op |-> "loadEmojis", foundLoaded |-> FALSE, fetched |-> TRUE,
                            ret |-> "pending", value |-> <<>>, err |-> ""]
            /\ loads' = [loads EXCEPT ![id] = [phase |-> "fetch"]]
            /\ UNCHANGED <<emojis, categories, emojisLoaded>>

\* The fetch of line 19 settles, lines 19-24: a rejected fetch and a response
\* that is not ok end the call in the catch block of line 37.
FetchSettles(id, response) ==
    /\ lastQuery' = NoQuery
    /\ loads[id].phase = "fetch"
    /\ lastParse' = NoParse
    /\ IF response.kind \in {"network", "httperror"}
       THEN /\ loads' = [loads EXCEPT ![id] = NoLoad]
            /\ lastLoad' = [op |-> "loadEmojis", foundLoaded |-> FALSE, fetched |-> TRUE,
                            ret |-> "throw", value |-> <<>>,
                            err |-> IF response.kind = "network" THEN "Failed to fetch"
                                    ELSE "Failed to load emoji data: 404"]
       ELSE /\ loads' = [loads EXCEPT ![id] = [phase |-> "json", response |-> response]]
            /\ lastLoad' = NoLoadCall
    /\ UNCHANGED <<emojis, categories, emojisLoaded>>

\* The elements the forEach of lines 29-33 visits before it reads the
\* category of a null and throws.
BeforeNull(arr) ==
    SubSeq(arr, 1, (CHOOSE i \in 1..Len(arr) :
                       IsNullElement(arr[i]) /\ \A j \in 1..(i - 1) : ~IsNullElement(arr[j])) - 1)

\* response.json() settles, lines 24-36.  The array is assigned at line 25,
\* the categories are collected at lines 28-33 and the flag is set at line
\* 35; a null element ends the call in the catch block of line 37 after
\* line 25 and a part of the loop have run.
JsonSettles(id) ==
    /\ lastQuery' = NoQuery
    /\ loads[id].phase = "json"
    /\ lastParse' = NoParse
    /\ loads' = [loads EXCEPT ![id] = NoLoad]
    /\ IF loads[id].response.kind = "badjson"
       THEN /\ lastLoad' = [op |-> "loadEmojis", foundLoaded |-> FALSE, fetched |-> TRUE,
                            ret |-> "throw", value |-> <<>>, err |-> "Unexpected token"]
            /\ UNCHANGED <<emojis, categories, emojisLoaded>>
       ELSE IF \E i \in 1..Len(loads[id].response.emojis) :
                    IsNullElement(loads[id].response.emojis[i])
       THEN /\ emojis' = loads[id].response.emojis
            /\ categories' = CategoriesOf(BeforeNull(loads[id].response.emojis))
            /\ lastLoad' = [op |-> "loadEmojis", foundLoaded |-> FALSE, fetched |-> TRUE,
                            ret |-> "throw", value |-> <<>>,
                            err |-> "Cannot read properties of null"]
            /\ UNCHANGED emojisLoaded
       ELSE /\ emojis' = loads[id].response.emojis
            /\ categories' = CategoriesOf(loads[id].response.emojis)
            /\ emojisLoaded' = TRUE
            /\ lastLoad' = [op |-> "loadEmojis", foundLoaded |-> FALSE, fetched |-> TRUE,
                            ret |-> "array", value |-> loads[id].response.emojis, err |-> ""]

\* reloadEmojis(), lines 317-322, up to the fetch its loadEmojis() starts.
ReloadEmojis(id) ==
    /\ lastQuery' = NoQuery
    /\ loads[id] = NoLoad
    /\ \A other \in LoadIds : other < id => loads[other] # NoLoad
    /\ lastParse' = NoParse
    /\ emojisLoaded' = FALSE
    /\ emojis' = <<>>
    /\ categories' = {}
    /\ loads' = [loads EXCEPT ![id] = [phase |-> "fetch"]]
    /\ lastLoad' = [op |-> "reloadEmojis", foundLoaded |-> emojisLoaded, fetched |-> TRUE,
                    ret |-> "pending", value |-> <<>>, err |-> ""]

(***************************************************************************)
(* The queries of EmojiData.  An argument is a record of its type and, for *)
(* a string, its text; a result is what the call returned or the message   *)
(* of what it threw.  lastQuery is the query of the latest step.           *)
(***************************************************************************)
NullArg == [type |-> "null", text |-> <<>>]

UndefinedArg == [type |-> "undefined", text |-> <<>>]

\* The queries given to search and getSearchSuggestions
Queries == {String(<<"c", "a">>), String(<<"C", "A">>), String(<<"c", "a", "t">>),
            String(<<" ", "C", "a", "t", " ">>), String(<<"t">>), String(<<"x">>),
            String(<<>>), String(<<" ">>), NullArg, UndefinedArg}

\* The limits given to getSearchSuggestions; 5 is the default of line 278.
Limits == {1, 2, 5}

\* The categories given to the category queries; a category is kept as one
\* string, "" being the empty one.
Category(c) == [type |-> "string", text |-> c]

NumberArg == [type |-> "number", text |-> "5"]

CategoryArgs == {Category("animals"), Category("nature"), Category("travel"),
                 Category("food"), Category(""), NumberArg,
                 [type |-> "null", text |-> ""]}

\* !arg, for the arguments above
Falsy(arg) == arg.type \in {"null", "undefined"} \/ (arg.type = "string" /\ Len(arg.text) = 0)

NotLoadedError == "Emoji data not loaded. Call loadEmojis() first."

Returned(ret, value) == [ret |-> ret, value |-> value, err |-> ""]

Thrown(err) == [ret |-> "throw", value |-> <<>>, err |-> err]

\* getAllEmojis(), lines 47-49
GetAllEmojisResult(list) == Returned("array", [i \in 1..Len(list) |-> list[i]])

\* getByCategory without the filter of line 104.
GetByCategoryResult_Unfiltered(list, loaded, category) ==
    IF ~loaded THEN Thrown(NotLoadedError)
    ELSE IF Falsy(category) \/ category.type # "string"
    THEN Thrown("Category must be a non-empty string")
    ELSE Returned("array", list)

\* getByCategory(category), lines 95-105
GetByCategoryResult(list, loaded, category) ==
    IF ~loaded THEN Thrown(NotLoadedError)
    ELSE IF Falsy(category) \/ category.type # "string"
    THEN Thrown("Category must be a non-empty string")
    ELSE Returned("array", SelectSeq(list, LAMBDA emoji : emoji.category = category.text))

\* The category strings in use, in the order of their UTF-16 code units,
\* which is the order Array.prototype.sort() puts strings in.
CodeUnitOrder == <<"animals", "food", "nature", "travel">>

\* getAllCategories without the sort of line 116: the categories in the
\* order the Set got them, that of their first emoji.
GetAllCategoriesResult_Unsorted(list, cats, loaded) ==
    IF ~loaded THEN Thrown(NotLoadedError)
    ELSE Returned("array",
                  LET first == {i \in 1..Len(list) :
                                   /\ list[i].category \in cats
                                   /\ \A j \in 1..(i - 1) : list[j].category # list[i].category}
                      pos == SelectSeq([i \in 1..Len(list) |-> i], LAMBDA i : i \in first)
                  IN [k \in 1..Len(pos) |-> list[pos[k]].category])

\* getAllCategories(), lines 111-117
GetAllCategoriesResult(list, cats, loaded) ==
    IF ~loaded THEN Thrown(NotLoadedError)
    ELSE Returned("array", SelectSeq(CodeUnitOrder, LAMBDA c : c \in cats))

\* getCategoryCount(category), lines 142-148
GetCategoryCountResult(list, loaded, category) ==
    IF ~loaded THEN Thrown(NotLoadedError)
    ELSE LET byCategory == GetByCategoryResult(list, loaded, category)
         IN IF byCategory.ret = "throw" THEN byCategory
            ELSE Returned("number", Len(byCategory.value))

\* hasCategory(category), lines 155-157
HasCategoryResult(cats, category) ==
    Returned("boolean", category.type = "string" /\ category.text \in cats)

\* What reading a property of undefined throws
TypeError == "Cannot read properties of undefined"

\* #getMatchInfo(emoji, searchTerm), lines 219-246, for a record that has
\* a name and keywords.
GetMatchInfo(emoji, searchTerm) ==
    LET name == ToLowerCase(emoji.name)
        keywords == [i \in 1..Len(emoji.keywords) |-> ToLowerCase(emoji.keywords[i])]
        keywordMatches == SelectSeq(keywords, LAMBDA keyword : Includes(keyword, searchTerm))
    IN [exactNameMatch |-> name = searchTerm,
        nameStartsWithQuery |-> StartsWith(name, searchTerm),
        nameContainsQuery |-> Includes(name, searchTerm),
        keywordMatches |-> keywordMatches,
        isMatch |-> \/ name = searchTerm
                    \/ StartsWith(name, searchTerm)
                    \/ Includes(name, searchTerm)
                    \/ Len(keywordMatches) > 0]

\* emoji.name.toLowerCase() (line 220) or emoji.keywords.map (line 221)
\* throws: the record has no name or no keywords.
MatchInfoThrows(emoji) == "name" \notin emoji.props \/ "keywords" \notin emoji.props

\* The comparator of lines 192-209: negative when a goes first.
Compare(a, b) ==
    IF a.matchInfo.exactNameMatch /\ ~b.matchInfo.exactNameMatch THEN -1
    ELSE IF ~a.matchInfo.exactNameMatch /\ b.matchInfo.exactNameMatch THEN 1
    ELSE IF a.matchInfo.nameStartsWithQuery /\ ~b.matchInfo.nameStartsWithQuery THEN -1
    ELSE IF ~a.matchInfo.nameStartsWithQuery /\ b.matchInfo.nameStartsWithQuery THEN 1
    ELSE IF a.matchInfo.nameContainsQuery /\ ~b.matchInfo.nameContainsQuery THEN -1
    ELSE IF ~a.matchInfo.nameContainsQuery /\ b.matchInfo.nameContainsQuery THEN 1
    ELSE Len(b.matchInfo.keywordMatches) - Len(a.matchInfo.keywordMatches)

\* Array.prototype.sort(compare), which is stable: an element goes after
\* those the comparator puts first and after the equal ones that were
\* before it.
Sort(results) ==
    LET place(i) == 1 + Cardinality({j \in 1..Len(results) :
                                        \/ Compare(results[j], results[i]) < 0
                                        \/ Compare(results[j], results[i]) = 0 /\ j < i})
    IN [k \in 1..Len(results) |-> results[CHOOSE i \in 1..Len(results) : place(i) = k]]

\* search(query), lines 164-212
SearchResult(list, loaded, query) ==
    IF ~loaded THEN Thrown(NotLoadedError)
    ELSE IF Falsy(query) \/ query.type # "string" THEN GetAllEmojisResult(list)
    ELSE LET searchTerm == Trim(ToLowerCase(query.text))
         IN IF searchTerm = <<>> THEN GetAllEmojisResult(list)
            ELSE IF \E i \in 1..Len(list) : MatchInfoThrows(list[i]) THEN Thrown(TypeError)
            ELSE LET all == [i \in 1..Len(list) |->
                                [emoji |-> list[i], matchInfo |-> GetMatchInfo(list[i], searchTerm)]]
                 IN Returned("array", Sort(SelectSeq(all, LAMBDA r : r.matchInfo.isMatch)))

\* Set.prototype.add on the suggestions in the order they were added
SetAdd(suggestions, str) ==
    IF \E i \in 1..Len(suggestions) : suggestions[i] = str THEN suggestions
    ELSE Append(suggestions, str)

\* The loop of lines 300-304 from the k-th keyword on
RECURSIVE AddKeywords(_, _, _, _)
AddKeywords(suggestions, keywords, k, query) ==
    IF k > Len(keywords) THEN suggestions
    ELSE AddKeywords(IF StartsWith(ToLowerCase(keywords[k]), query)
                     THEN SetAdd(suggestions, keywords[k]) ELSE suggestions,
                     keywords, k + 1, query)

\* The loop of lines 292-307 from the i-th emoji on: the suggestions, or
\* that reading a record threw.
RECURSIVE Suggest(_, _, _, _, _)
Suggest(list, i, query, limit, suggestions) ==
    IF i > Len(list) THEN [thrown |-> FALSE, suggestions |-> suggestions]
    ELSE IF MatchInfoThrows(list[i]) THEN [thrown |-> TRUE, suggestions |-> suggestions]
    ELSE LET named == IF StartsWith(ToLowerCase(list[i].name), query)
                      THEN SetAdd(suggestions, list[i].name) ELSE suggestions
             added == AddKeywords(named, list[i].keywords, 1, query)
         IN IF Len(added) >= limit THEN [thrown |-> FALSE, suggestions |-> added]
            ELSE Suggest(list, i + 1, query, limit, added)

\* getSearchSuggestions(partialQuery, limit), lines 278-311
GetSearchSuggestionsResult(list, loaded, partialQuery, limit) ==
    IF ~loaded THEN Thrown(NotLoadedError)
    ELSE IF Falsy(partialQuery) \/ partialQuery.type # "string" THEN Returned("array", <<>>)
    ELSE LET query == Trim(ToLowerCase(partialQuery.text))
         IN IF query = <<>> THEN Returned("array", <<>>)
            ELSE LET loop == Suggest(list, 1, query, limit, <<>>)
                 IN IF loop.thrown THEN Thrown(TypeError)
                    ELSE Returned("array", Slice(loop.suggestions, limit))

\* A query leaves its name, its arguments and its result in lastQuery, and
\* the catalog as it was.
Query(op, arg, limit, result) ==
    /\ lastQuery' = [op |-> op, arg |-> arg, limit |-> limit, loaded |-> emojisLoaded,
                     result |-> result]
    /\ lastLoad' = NoLoadCall
    /\ lastParse' = NoParse
    /\ UNCHANGED <<emojis, categories, emojisLoaded, loads>>

GetAllEmojis == Query("getAllEmojis", NullArg, 0, GetAllEmojisResult(emojis))

GetByCategory(category) ==
    Query("getByCategory", category, 0, GetByCategoryResult(emojis, emojisLoaded, category))

GetAllCategories ==
    Query("getAllCategories", NullArg, 0, GetAllCategoriesResult(emojis, categories, emojisLoaded))

GetCategoryCount(category) ==
    Query("getCategoryCount", category, 0, GetCategoryCountResult(emojis, emojisLoaded, category))

HasCategory(category) == Query("hasCategory", category, 0, HasCategoryResult(categories, category))

Search(query) == Query("search", query, 0, SearchResult(emojis, emojisLoaded, query))

GetSearchSuggestions(partialQuery, limit) ==
    Query("getSearchSuggestions", partialQuery, limit,
          GetSearchSuggestionsResult(emojis, emojisLoaded, partialQuery, limit))

CatalogNext ==
    \/ \E id \in LoadIds : LoadEmojis(id) /\ UNCHANGED <<storeVars, copyVars, callerVars, uiVars>>
    \/ \E id \in LoadIds, response \in Responses :
          FetchSettles(id, response) /\ UNCHANGED <<storeVars, copyVars, callerVars, uiVars>>
    \/ \E id \in LoadIds : JsonSettles(id) /\ UNCHANGED <<storeVars, copyVars, callerVars, uiVars>>
    \/ \E id \in LoadIds : ReloadEmojis(id) /\ UNCHANGED <<storeVars, copyVars, callerVars, uiVars>>
    \/ \E emojiData \in ParseInputs :
          ParseEmojiData(emojiData) /\ UNCHANGED <<storeVars, copyVars, callerVars, uiVars>>
    \/ GetAllEmojis /\ UNCHANGED <<storeVars, copyVars, callerVars, uiVars>>
    \/ \E category \in CategoryArgs :
          GetByCategory(category) /\ UNCHANGED <<storeVars, copyVars, callerVars, uiVars>>
    \/ GetAllCategories /\ UNCHANGED <<storeVars, copyVars, callerVars, uiVars>>
    \/ \E category \in CategoryArgs :
          GetCategoryCount(category) /\ UNCHANGED <<storeVars, copyVars, callerVars, uiVars>>
    \/ \E category \in CategoryArgs : HasCategory(category) /\ UNCHANGED <<storeVars, copyVars, callerVars, uiVars>>
    \/ \E query \in Queries : Search(query) /\ UNCHANGED <<storeVars, copyVars, callerVars, uiVars>>
    \/ \E partialQuery \in Queries, limit \in Limits :
          GetSearchSuggestions(partialQuery, limit) /\ UNCHANGED <<storeVars, copyVars, callerVars, uiVars>>

CatalogInit == Init /\ storage = Missing

CatalogSpec == CatalogInit /\ [][CatalogNext]_vars

(***************************************************************************)
(* The two validations, add (lines 434-445 of RecentlyUsed) and            *)
(* parseEmojiData, applied to complete objects and to objects lacking one  *)
(* or two of the required properties, in every state adds lead to.         *)
(***************************************************************************)
ValidationInputs ==
    AddInputs \cup {LackingAll("b", {"name", "codepoint"}), LackingAll("c", {"keywords", "category"})}

ValidationNext ==
    \/ \E emoji \in ValidationInputs : Add(emoji) /\ UNCHANGED <<copyVars, catalogVars, callerVars, uiVars>>
    \/ \E emojiData \in ParseInputs :
          ParseEmojiData(emojiData) /\ UNCHANGED <<storeVars, copyVars, callerVars, uiVars>>

ValidationSpec == Init /\ [][ValidationNext]_vars

(***************************************************************************)
(* The arrays the accessors return and what their caller can reach through *)
(* them.  JavaScript arrays and objects are references: an accessor either *)
(* hands out the array (the emoji objects, their keywords arrays) the      *)
(* class holds or a copy of it.  held names the accessor that returned the *)
(* array the caller has, the levels at which that array is the class's     *)
(* own, the level the caller last assigned at, and whether that assignment *)
(* changed an object the class holds.                                      *)
(***************************************************************************)
Levels == {"array", "objects", "keywords"}

Handed(from, shares) ==
    [from |-> from, shares |-> shares, assigned |-> "none", reached |-> FALSE]

\* getAllEmojis returning this.#emojis
SharedByGetAllEmojis_SameArray == {"array", "objects", "keywords"}

\* getAllEmojis, line 48: [...this.#emojis] is a new array of the same objects.
SharedByGetAllEmojis == {"objects", "keywords"}

\* loadEmojis on a loaded catalog, line 15: this.#emojis itself
SharedByLoadEmojis == {"array", "objects", "keywords"}

\* get() with keywords: emoji.keywords in place of the copy of line 495
SharedByGet_SameKeywords == {"keywords"}

\* RecentlyUsed.get, lines 491-497: new objects with new keywords arrays
SharedByGet == {}

\* What the caller's assignment makes of the array the class holds when it
\* reaches it: array.pop(), array[0].unicode = 'x', array[0].keywords.length = 0
\* (the model of RecentlyUsed keeps no keywords).
Assigned(list, level) ==
    CASE level = "array" -> SubSeq(list, 1, Len(list) - 1)
      [] level = "objects" -> [list EXCEPT ![1].unicode = "x"]
      [] level = "keywords" -> IF "keywords" \in DOMAIN list[1]
                               THEN [list EXCEPT ![1].keywords = <<>>] ELSE list

GetAllEmojisHanded ==
    /\ GetAllEmojis
    /\ held' = Handed("getAllEmojis", SharedByGetAllEmojis)
    /\ UNCHANGED <<storeVars, copyVars, uiVars>>

LoadEmojisHanded(id) ==
    /\ LoadEmojis(id)
    /\ held' = IF emojisLoaded THEN Handed("loadEmojis", SharedByLoadEmojis) ELSE NothingHeld
    /\ UNCHANGED <<storeVars, copyVars, uiVars>>

GetHanded ==
    /\ Get
    /\ held' = Handed("get", SharedByGet)
    /\ UNCHANGED <<copyVars, catalogVars, uiVars>>

\* The caller assigns to the array it holds, to its first element or to the
\* keywords of its first element.
Mutate(level) ==
    /\ held # NothingHeld
    /\ LET reached == level \in held.shares
       IN /\ held' = [held EXCEPT !.assigned = level, !.reached = reached]
          /\ IF held.from = "get"
             THEN /\ Len(recentEmojis) > 0
                  /\ recentEmojis' = IF reached THEN Assigned(recentEmojis, level)
                                     ELSE recentEmojis
                  /\ UNCHANGED emojis
             ELSE /\ Len(emojis) > 0
                  /\ emojis' = IF reached THEN Assigned(emojis, level) ELSE emojis
                  /\ UNCHANGED recentEmojis
    /\ UNCHANGED <<maxEmojis, isLoaded, storage, last, run, savedList, hydrated>>
    /\ UNCHANGED <<categories, emojisLoaded, loads, lastLoad, lastParse, lastQuery>>
    /\ UNCHANGED <<copyVars, uiVars>>

\* Another operation of the classes runs: the caller has let go of the array.
Dropped == held' = NothingHeld

\* One load at a time, of a catalog of three emojis, and adds of two emojis
\* give the accessors something to return.
AccessorNext ==
    \/ GetAllEmojisHanded
    \/ LoadEmojisHanded(1)
    \/ GetHanded
    \/ \E level \in Levels : Mutate(level)
    \/ \E emoji \in {Emoji("a"), Emoji("b")} :
          Add(emoji) /\ Dropped /\ UNCHANGED <<copyVars, catalogVars, uiVars>>
    \/ FetchSettles(1, [kind |-> "ok", emojis |-> <<Dog, Cat, Sun>>])
          /\ Dropped /\ UNCHANGED <<storeVars, copyVars, uiVars>>
    \/ JsonSettles(1) /\ Dropped /\ UNCHANGED <<storeVars, copyVars, uiVars>>

AccessorInit == Init /\ storage \in {Missing, Document(<<Entry("a", 1), Entry("b", 1)>>, 1)}

AccessorSpec == AccessorInit /\ [][AccessorNext]_vars

(***************************************************************************)
(* reset() and load() called one after the other, as the persistence test  *)
(* does (src/js/test-recently-used.js lines 139-141): both are synchronous *)
(* and nothing runs between them, so the pair is one step.                 *)
(***************************************************************************)
\* The item after reset(), lines 697-701; ok is FALSE when removeItem throws.
ResetItem(item, ok) == IF ok THEN Missing ELSE item

\* reset(); load();
ResetThenLoad ==
    \E ok \in BOOLEAN :
       LET out == LoadOutcome(ResetItem(storage, ok), maxEmojis)
       IN /\ recentEmojis' = out.emojis
          /\ isLoaded' = out.loaded
          /\ hydrated' = (hydrated \/ out.loaded)
          /\ storage' = ResetItem(storage, ok)
          /\ savedList' = IF ok THEN NoList ELSE savedList
          /\ last' = Report("reset;load", "", 0, out.ret, "", "none", TRUE,
                            UnicodesOf(recentEmojis))
          /\ run' = NoRun
          /\ UNCHANGED maxEmojis

RestoreNext ==
    \/ \E emoji \in AddInputs : Add(emoji) /\ UNCHANGED <<copyVars, catalogVars, callerVars, uiVars>>
    \/ Get /\ UNCHANGED <<copyVars, catalogVars, callerVars, uiVars>>
    \/ ResetThenLoad /\ UNCHANGED <<copyVars, catalogVars, callerVars, uiVars>>

RestoreSpec == Init /\ [][RestoreNext]_vars

(***************************************************************************)
(* RecentlyUsedManager.  recentlyUsed and maxItems are the fields of the   *)
(* one manager of the page, managerItem is the string under its key, and   *)
(* lastManager names the latest call.                                      *)
(***************************************************************************)
\* The filter of lines 39-41 and 299-301.
IsItem(item) == item.type = "object" /\ item.emoji # "" /\ item.name # ""

\* loadFromStorage(), lines 33-47: the array it leaves in recentlyUsed.  A
\* missing item leaves the array alone; a string that is no JSON, and a
\* value without a filter method, end in the catch block.
LoadedFromStorage(list, item) ==
    IF item.kind = "missing" THEN list
    ELSE IF item.kind = "array" THEN SelectSeq(item.items, IsItem)
    ELSE <<>>

\* saveToStorage(), lines 52-58; ok is FALSE when setItem throws.
SavedToStorage(item, list, ok) == IF ok THEN ArrayItem(list) ELSE item

\* Lines 78-86 of addEmoji.
WithEmoji(list, emoji, t, max) ==
    Slice(<<Item(emoji, t)>> \o SelectSeq(list, LAMBDA item : item.emoji # emoji), max)

\* new RecentlyUsedManager(container, onEmojiClick) with a container, lines
\* 5-28: a page is opened.
NewManager ==
    /\ recentlyUsed' = LoadedFromStorage(<<>>, managerItem)
    /\ maxItems' = DefaultMaxItems
    /\ lastManager' = [op |-> "new"]
    /\ UNCHANGED managerItem

\* loadFromStorage(), lines 33-47
LoadFromStorage ==
    /\ recentlyUsed' = LoadedFromStorage(recentlyUsed, managerItem)
    /\ lastManager' = [op |-> "loadFromStorage"]
    /\ UNCHANGED <<maxItems, managerItem>>

\* addEmoji(emoji, name), lines 65-93
AddEmoji(emoji, name) ==
    /\ lastManager' = [op |-> "addEmoji"]
    /\ IF emoji = "" \/ name = ""
       THEN UNCHANGED <<recentlyUsed, maxItems, managerItem>>
       ELSE \E t \in Timestamps, ok \in BOOLEAN :
               /\ recentlyUsed' = WithEmoji(recentlyUsed, emoji, t, maxItems)
               /\ managerItem' = SavedToStorage(managerItem, recentlyUsed', ok)
               /\ UNCHANGED maxItems

\* removeEmoji(emoji), lines 99-103
RemoveEmoji(emoji) ==
    /\ recentlyUsed' = SelectSeq(recentlyUsed, LAMBDA item : item.emoji # emoji)
    /\ \E ok \in BOOLEAN : managerItem' = SavedToStorage(managerItem, recentlyUsed', ok)
    /\ lastManager' = [op |-> "removeEmoji"]
    /\ UNCHANGED maxItems

\* clear(), lines 108-112
ManagerClear ==
    /\ recentlyUsed' = <<>>
    /\ \E ok \in BOOLEAN : managerItem' = SavedToStorage(managerItem, <<>>, ok)
    /\ lastManager' = [op |-> "clear"]
    /\ UNCHANGED maxItems

\* setMaxItems(max), lines 268-279
SetMaxItems(max) ==
    /\ lastManager' = [op |-> "setMaxItems"]
    /\ IF max > 0
       THEN /\ maxItems' = max
            /\ IF Len(recentlyUsed) > max
               THEN /\ recentlyUsed' = Slice(recentlyUsed, max)
                    /\ \E ok \in BOOLEAN :
                          managerItem' = SavedToStorage(managerItem, recentlyUsed', ok)
               ELSE UNCHANGED <<recentlyUsed, managerItem>>
       ELSE UNCHANGED <<recentlyUsed, maxItems, managerItem>>

\* importData(jsonData), lines 293-306
ImportData(jsonData) ==
    /\ lastManager' = [op |-> "importData"]
    /\ IF jsonData.kind = "array"
       THEN /\ recentlyUsed' = Slice(SelectSeq(jsonData.items, IsItem), maxItems)
            /\ \E ok \in BOOLEAN :
                  managerItem' = SavedToStorage(managerItem, recentlyUsed', ok)
            /\ UNCHANGED maxItems
       ELSE UNCHANGED <<recentlyUsed, maxItems, managerItem>>

ManagerNext ==
    \/ NewManager /\ UNCHANGED <<storeVars, copyVars, catalogVars, callerVars, overlapVars, gridVars>>
    \/ LoadFromStorage /\ UNCHANGED <<storeVars, copyVars, catalogVars, callerVars, overlapVars, gridVars>>
    \/ \E emoji \in Unicodes \cup {""}, name \in {"name", ""} :
          AddEmoji(emoji, name) /\ UNCHANGED <<storeVars, copyVars, catalogVars, callerVars, overlapVars, gridVars>>
    \/ \E emoji \in Unicodes :
          RemoveEmoji(emoji) /\ UNCHANGED <<storeVars, copyVars, catalogVars, callerVars, overlapVars, gridVars>>
    \/ ManagerClear /\ UNCHANGED <<storeVars, copyVars, catalogVars, callerVars, overlapVars, gridVars>>
    \/ \E max \in 0..MaxLimit :
          SetMaxItems(max) /\ UNCHANGED <<storeVars, copyVars, catalogVars, callerVars, overlapVars, gridVars>>
    \/ \E jsonData \in ImportInputs :
          ImportData(jsonData) /\ UNCHANGED <<storeVars, copyVars, catalogVars, callerVars, overlapVars, gridVars>>

\* The page is opened with nothing under the manager's key.
ManagerInit == Init /\ storage = Missing

ManagerSpec == ManagerInit /\ [][ManagerNext]_vars

(***************************************************************************)
(* Overlapping copyEmoji calls.  Two calls may be in flight at once, each   *)
(* for a complete emoji and with addToRecent left on; the                  *)
(* capacity of the list may be set between the steps.  finished holds, for *)
(* the latest and the one before it of the calls that ran to their end     *)
(* since a call last began with no other in flight, the slot, the emoji,   *)
(* what the clipboard collaborator reported and the slots of the calls in  *)
(* flight at that moment.                                                  *)
(***************************************************************************)
\* The slots of the two calls.
OverlapIds == {1, 2}

OverlapInputs == {Emoji("b"), Emoji("c")}

\* The latest entry of finished, then the new one.
Finishing(id, outcome) ==
    LET entry == [id |-> id, emoji |-> calls[id].emoji, outcome |-> outcome,
                  with |-> {other \in OverlapIds \ {id} : calls[other] # NoCall}]
    IN IF finished = <<>> THEN <<entry>> ELSE <<finished[Len(finished)], entry>>

OverlapInit ==
    /\ InitFields
    /\ calls = [id \in OverlapIds |-> NoCall]
    /\ storage \in {Missing, Document(<<Entry("a", 1), Entry("b", 1)>>, 1)}

OverlapNext ==
    \/ \E id \in OverlapIds, emoji \in OverlapInputs :
          /\ CopyEmoji(id, emoji, TRUE)
          /\ finished' = IF \A other \in OverlapIds : calls[other] = NoCall THEN <<>>
                          ELSE finished
          /\ UNCHANGED <<catalogVars, callerVars, managerVars, gridVars>>
    \/ \E id \in OverlapIds : Initialized(id) /\ UNCHANGED <<catalogVars, callerVars, uiVars>>
    \/ \E id \in OverlapIds, outcome \in {"true", "false"} :
          /\ ClipboardSettles(id, outcome)
          /\ finished' = Finishing(id, outcome)
          /\ UNCHANGED <<catalogVars, callerVars, managerVars, gridVars>>
    \/ \E max \in {1, DefaultMaxEmojis} :
          /\ SetMaxEmojis(max)
          /\ lastCopy' = NoCopy
          /\ UNCHANGED <<copyListeners, isInitialized, calls>>
          /\ UNCHANGED <<catalogVars, callerVars, uiVars>>

OverlapSpec == OverlapInit /\ [][OverlapNext]_vars

(***************************************************************************)
(* Loads and reloads of EmojiData with the documents of CatalogSpec and    *)
(* one whose array has a null element; getAllEmojis() shows the array.     *)
(***************************************************************************)
CommitNext ==
    \/ \E id \in LoadIds : LoadEmojis(id) /\ UNCHANGED <<storeVars, copyVars, callerVars, uiVars>>
    \/ \E id \in LoadIds, response \in Responses \cup {HoledResponse} :
          FetchSettles(id, response) /\ UNCHANGED <<storeVars, copyVars, callerVars, uiVars>>
    \/ \E id \in LoadIds : JsonSettles(id) /\ UNCHANGED <<storeVars, copyVars, callerVars, uiVars>>
    \/ \E id \in LoadIds : ReloadEmojis(id) /\ UNCHANGED <<storeVars, copyVars, callerVars, uiVars>>
    \/ GetAllEmojis /\ UNCHANGED <<storeVars, copyVars, callerVars, uiVars>>

CommitSpec == CatalogInit /\ [][CommitNext]_vars

(***************************************************************************)
(* EmojiGrid.  gridEmojis and filteredEmojis are its two arrays,           *)
(* currentCategory and searchQuery its filters.  gridLoad is "none" before *)
(* the grid is constructed, "awaiting" while its loadEmojis() waits at     *)
(* line 35 for EmojiData.loadEmojis(), which runs in slot 1, and "idle"    *)
(* otherwise; the continuation of line 38 runs as soon as that promise     *)
(* settles, before any other event is handled.  lastGrid is the latest     *)
(* call of the grid with the message of an exception that left it.         *)
(***************************************************************************)
\* loadEmojis(), lines 31-47, up to its await.
GridLoadEmojis(op) ==
    /\ lastGrid' = [op |-> op, err |-> ""]
    /\ IF emojisLoaded
       THEN /\ gridEmojis' = GetAllEmojisResult(emojis).value
            /\ filteredEmojis' = gridEmojis'
            /\ gridLoad' = "idle"
            /\ UNCHANGED catalogVars
       ELSE /\ LoadEmojis(1)
            /\ gridLoad' = "awaiting"
            /\ UNCHANGED <<gridEmojis, filteredEmojis>>
    /\ UNCHANGED <<currentCategory, searchQuery>>

\* new EmojiGrid(container, onEmojiClick), lines 5-26
NewGrid ==
    /\ gridLoad = "none"
    /\ GridLoadEmojis("new")

\* refresh(), lines 285-287
Refresh ==
    /\ gridLoad = "idle"
    /\ GridLoadEmojis("refresh")

\* loadEmojis() after its await, lines 38-46: the promise was fulfilled, or
\* rejected and the catch block ran.
GridResumes(fulfilled) ==
    /\ gridLoad' = "idle"
    /\ lastGrid' = [op |-> "loadEmojis", err |-> ""]
    /\ IF fulfilled
       THEN /\ gridEmojis' = GetAllEmojisResult(emojis').value
            /\ filteredEmojis' = gridEmojis'
       ELSE UNCHANGED <<gridEmojis, filteredEmojis>>
    /\ UNCHANGED <<currentCategory, searchQuery>>

\* The fetch of the grid's load settles.
GridFetchSettles(response) ==
    /\ gridLoad = "awaiting"
    /\ FetchSettles(1, response)
    /\ IF loads'[1] = NoLoad THEN GridResumes(FALSE) ELSE UNCHANGED gridVars

\* response.json() of the grid's load settles.
GridJsonSettles ==
    /\ gridLoad = "awaiting"
    /\ JsonSettles(1)
    /\ GridResumes(lastLoad'.ret # "throw")

\* applyFilters(), lines 164-184, with the filters given: the array it
\* assigns to filteredEmojis, or the exception of EmojiData.search.
ApplyFilters(category, query) ==
    LET inCategory == IF category # "" /\ category # "all"
                      THEN SelectSeq(gridEmojis, LAMBDA emoji : emoji.category = category)
                      ELSE gridEmojis
    IN IF Len(query.text) > 0 /\ Len(Trim(query.text)) > 0
       THEN LET searchResults == SearchResult(emojis, emojisLoaded, query)
                searchEmojiUnicodes == {searchResults.value[i].emoji.unicode :
                                           i \in 1..Len(searchResults.value)}
            IN IF searchResults.ret = "throw" THEN Thrown(searchResults.err)
               ELSE Returned("array", SelectSeq(inCategory,
                                LAMBDA emoji : emoji.unicode \in searchEmojiUnicodes))
       ELSE Returned("array", inCategory)

\* filterByCategory(categoryId), lines 147-150
FilterByCategory(categoryId) ==
    /\ gridLoad # "none"
    /\ currentCategory' = categoryId
    /\ LET applied == ApplyFilters(categoryId, searchQuery)
       IN /\ filteredEmojis' = IF applied.ret = "throw" THEN filteredEmojis ELSE applied.value
          /\ lastGrid' = [op |-> "filterByCategory", err |-> applied.err]
    /\ UNCHANGED <<gridEmojis, searchQuery, gridLoad, catalogVars>>

\* filterBySearch(query), lines 156-159
FilterBySearch(query) ==
    /\ gridLoad # "none"
    /\ searchQuery' = query
    /\ LET applied == ApplyFilters(currentCategory, query)
       IN /\ filteredEmojis' = IF applied.ret = "throw" THEN filteredEmojis ELSE applied.value
          /\ lastGrid' = [op |-> "filterBySearch", err |-> applied.err]
    /\ UNCHANGED <<gridEmojis, currentCategory, gridLoad, catalogVars>>

\* clearFilters(), lines 292-297
ClearFilters ==
    /\ gridLoad # "none"
    /\ currentCategory' = "all"
    /\ searchQuery' = String(<<>>)
    /\ filteredEmojis' = gridEmojis
    /\ lastGrid' = [op |-> "clearFilters", err |-> ""]
    /\ UNCHANGED <<gridEmojis, gridLoad, catalogVars>>

GridNext ==
    \/ NewGrid /\ UNCHANGED <<storeVars, copyVars, callerVars, managerVars, overlapVars>>
    \/ Refresh /\ UNCHANGED <<storeVars, copyVars, callerVars, managerVars, overlapVars>>
    \/ \E response \in GridResponses :
          GridFetchSettles(response)
              /\ UNCHANGED <<storeVars, copyVars, callerVars, managerVars, overlapVars>>
    \/ GridJsonSettles /\ UNCHANGED <<storeVars, copyVars, callerVars, managerVars, overlapVars>>
    \/ \E categoryId \in GridCategories :
          FilterByCategory(categoryId)
              /\ UNCHANGED <<storeVars, copyVars, callerVars, managerVars, overlapVars>>
    \/ \E query \in GridQueries :
          FilterBySearch(query)
              /\ UNCHANGED <<storeVars, copyVars, callerVars, managerVars, overlapVars>>
    \/ ClearFilters /\ UNCHANGED <<storeVars, copyVars, callerVars, managerVars, overlapVars>>

GridSpec == CatalogInit /\ [][GridNext]_vars

(***************************************************************************)
(* Properties.  They speak of the entries through operators of their own,  *)
(* not through the operators the actions are built from.                   *)
(***************************************************************************)
FirstN(s, n) == [i \in 1..(IF Len(s) < n THEN Len(s) ELSE n) |-> s[i]]

Without(us, u) == SelectSeq(us, LAMBDA x : x # u)

\* C1 (dedup-and-promote): an add of an emoji whose unicode get() already
\* showed leaves the list no longer than it was, with that emoji at index 0
\* of get().
C1_DedupAndPromote ==
    (last.op = "add" /\ last.ret = "true" /\ last.arg \in Range(last.pre))
        => /\ Len(recentEmojis) <= Len(last.pre)
           /\ Len(GetView(recentEmojis)) >= 1
           /\ GetView(recentEmojis)[1].unicode = last.arg

\* An emoji that was in the list, not at its front, has just been added again.
C1_Witness ==
    /\ last.op = "add" /\ last.ret = "true"
    /\ Len(last.pre) >= 2
    /\ \E i \in 2..Len(last.pre) : last.pre[i] = last.arg
    /\ recentEmojis[1].unicode = last.arg

\* C2 (capacity bound): after n > maxEmojis adds of pairwise distinct unicodes
\* to an empty list, get() shows exactly the maxEmojis emojis added last, the
\* latest first.
C2_CapacityBound ==
    (run # NoRun /\ Len(run) > maxEmojis)
        => UnicodesOf(GetView(recentEmojis)) = [i \in 1..maxEmojis |-> run[Len(run) + 1 - i]]

\* More distinct emojis than the list holds were added, and the list holds
\* more than one.
C2_Witness ==
    run # NoRun /\ Len(run) > maxEmojis /\ maxEmojis >= 2 /\ Len(recentEmojis) = maxEmojis

\* C3 (uniqueness): no two entries of the list have the same unicode.
C3_UniqueUnicode ==
    \A i, j \in 1..Len(recentEmojis) :
        i # j => recentEmojis[i].unicode # recentEmojis[j].unicode

\* C4 (length bound): the list never holds more than maxEmojis entries.
C4_LengthBound == Len(recentEmojis) <= maxEmojis

\* setMaxEmojis has just cut a longer list down to the new limit.
C4_Witness ==
    /\ last.op = "setMaxEmojis" /\ last.ret = "undefined"
    /\ Len(last.pre) > maxEmojis
    /\ Len(recentEmojis) = maxEmojis

\* An object with the five properties of an emoji.
HasAllFive(e) ==
    /\ e.type = "object"
    /\ {"unicode", "name", "category", "keywords", "codepoint"} \subseteq e.props

\* The entries an item holds for a list of at most n: those of its array that
\* have the five properties, in their order, the first n of them.
ValidPrefix(item, n) ==
    IF item.kind = "doc" THEN FirstN(SelectSeq(item.emojis, HasAllFive), n) ELSE <<>>

\* The entry sequence stored under the key.
StoredEntries == IF storage.kind = "doc" THEN storage.emojis ELSE <<>>

\* C5 as claimed (round trip): a load() on a freshly loaded page, the item
\* being the one the latest successful save() wrote, leaves the entries that
\* were saved, in their order.
C5_RoundTrip ==
    (last.op = "load" /\ last.fresh /\ savedList # NoList) => recentEmojis = savedList

\* C5 as amended: such a load() leaves the first DefaultMaxEmojis of the saved
\* entries, in their order: all of them when the saved list was no longer
\* than the default limit.
C5_RoundTripUpToDefault ==
    (last.op = "load" /\ last.fresh /\ savedList # NoList)
        => /\ recentEmojis = FirstN(savedList, DefaultMaxEmojis)
           /\ Len(savedList) <= DefaultMaxEmojis => recentEmojis = savedList

\* A fresh page has loaded a saved list of two entries or more.
C5_Witness ==
    /\ last.op = "load" /\ last.fresh /\ savedList # NoList
    /\ Len(savedList) >= 2
    /\ recentEmojis = savedList

\* C6 as claimed (every mutation persists): after add, remove, clear or
\* setMaxEmojis completed on a hydrated list with no failing write, the stored
\* entry sequence is the list.
C6_EveryMutationPersists ==
    (/\ last.op \in {"add", "remove", "clear", "setMaxEmojis"}
     /\ last.ret # "throw"
     /\ last.save # "failed"
     /\ isLoaded)
        => StoredEntries = recentEmojis

\* The calls that changed the list: an add, a clear, a remove that found its
\* entry, a setMaxEmojis below the length of the list.
ChangedList ==
    \/ last.op = "add" /\ last.ret = "true"
    \/ last.op = "clear"
    \/ last.op = "remove" /\ last.ret = "true"
    \/ last.op = "setMaxEmojis" /\ last.ret # "throw" /\ Len(last.pre) > last.n

\* C6 as amended: after a call that changed the list completed with no
\* failing write, the item is a document whose entry sequence is the list.
C6_ChangesPersist ==
    (ChangedList /\ last.save # "failed")
        => storage.kind = "doc" /\ storage.emojis = recentEmojis

\* A clear has replaced a stored list by the empty one.
C6_Witness ==
    /\ last.op = "clear" /\ last.save = "ok" /\ Len(last.pre) >= 1
    /\ storage.kind = "doc" /\ storage.emojis = <<>>

\* The list a call is to leave, as unicodes, from the unicodes before it.
EffectOnList ==
    /\ (last.op = "add" /\ last.ret # "throw")
          => UnicodesOf(recentEmojis) = FirstN(<<last.arg>> \o Without(last.pre, last.arg), maxEmojis)
    /\ (last.op = "remove" /\ last.ret # "throw")
          => UnicodesOf(recentEmojis) = Without(last.pre, last.arg)
    /\ last.op = "clear" => recentEmojis = <<>>
    /\ (last.op = "setMaxEmojis" /\ last.ret # "throw")
          => maxEmojis = last.n /\ UnicodesOf(recentEmojis) = FirstN(last.pre, last.n)

\* C7 (a failing write is not fatal): when setItem throws, save() returns
\* false, no call throws, add/remove/clear return what they return otherwise,
\* and the list is what the call leaves when the write succeeds.
C7_WriteFailureNonFatal ==
    /\ last.save \in {"ok", "failed"} => EffectOnList
    /\ last.save = "failed"
          => /\ last.ret # "throw"
             /\ last.op = "save" => last.ret = "false"
             /\ last.op \in {"add", "remove", "clear"} => last.ret = "true"
             /\ last.op \in {"save", "add", "remove", "clear", "setMaxEmojis"}

\* An add whose write failed has put its emoji in front of another entry.
C7_Witness ==
    /\ last.op = "add" /\ last.save = "failed" /\ last.ret = "true"
    /\ Len(recentEmojis) >= 2
    /\ StoredEntries # recentEmojis

\* C8 (load always succeeds): load() returns true whatever the item is, and
\* leaves the list empty when there is no item, when the item does not parse
\* and when it parses to the wrong structure.
C8_LoadAlwaysSucceeds ==
    last.op = "load"
        => /\ last.ret = "true"
           /\ storage.kind \in {"missing", "unparseable", "wrongshape"} => recentEmojis = <<>>

\* C9 (load filters and truncates): load() on a stored array returns true and
\* leaves exactly the entries of the array that have the five properties, in
\* their order, cut to the first maxEmojis.
C9_LoadKeepsValidPrefix ==
    (last.op = "load" /\ storage.kind = "doc")
        => /\ last.ret = "true"
           /\ recentEmojis = ValidPrefix(storage, maxEmojis)

\* A load has dropped an invalid element that stood before a valid one, and
\* has cut the valid ones to maxEmojis.
C9_Witness ==
    /\ last.op = "load" /\ storage.kind = "doc"
    /\ \E i, j \in 1..Len(storage.emojis) :
          i < j /\ ~HasAllFive(storage.emojis[i]) /\ HasAllFive(storage.emojis[j])
    /\ Len(SelectSeq(storage.emojis, HasAllFive)) > maxEmojis
    /\ Len(recentEmojis) = maxEmojis

\* The step is a call that reaches "if (!this.#isLoaded)".
Accesses ==
    \/ last'.op \in {"initialize", "get", "getCount"}
    \/ last'.op = "contains" /\ last'.arg # ""
    \/ last'.op \in {"add", "remove"} /\ last'.ret # "throw"

\* The first access on a fresh page reads the item and leaves the entries it
\* holds; an add puts its emoji in front of them, a remove takes its unicode
\* out of them.
FirstAccessHydrates ==
    (Fresh /\ Accesses)
        => /\ last'.read
           /\ isLoaded'
           /\ last'.op \in {"initialize", "get", "getCount", "contains"}
                 => recentEmojis' = ValidPrefix(storage, maxEmojis)
           /\ last'.op = "add"
                 => /\ recentEmojis'[1].unicode = last'.arg
                    /\ recentEmojis' = FirstN(<<recentEmojis'[1]>> \o
                          SelectSeq(ValidPrefix(storage, maxEmojis),
                                    LAMBDA x : x.unicode # last'.arg), maxEmojis)
           /\ last'.op = "remove"
                 => recentEmojis' = SelectSeq(ValidPrefix(storage, maxEmojis),
                                              LAMBDA x : x.unicode # last'.arg)

\* C10 as claimed (hydration happens once): the first access on a fresh page
\* hydrates the list, and every initialize() after a hydration neither reads
\* the item nor changes the entries.
C10_HydratedOnce ==
    [][/\ FirstAccessHydrates
       /\ (hydrated /\ last'.op = "initialize")
             => ~last'.read /\ recentEmojis' = recentEmojis]_vars

\* C10 as amended: the first access on a fresh page hydrates the list, and
\* every initialize() while #isLoaded is set, that is after a hydration with
\* no reset() since, changes nothing and does not read the item.
C10_HydratedOncePerReset ==
    [][/\ FirstAccessHydrates
       /\ (isLoaded /\ last'.op = "initialize")
             => /\ ~last'.read
                /\ UNCHANGED <<recentEmojis, maxEmojis, isLoaded, storage>>]_vars

\* initialize() has been called again, after the item was changed, and has
\* left a list that is not what the item holds.
C10_Witness ==
    /\ last.op = "initialize" /\ ~last.read /\ ~last.fresh
    /\ isLoaded
    /\ Len(recentEmojis) >= 1
    /\ recentEmojis # ValidPrefix(storage, maxEmojis)

(***************************************************************************)
(* Validation (C11).                                                       *)
(***************************************************************************)
FiveFields == <<"unicode", "name", "category", "keywords", "codepoint">>

LacksAField(props) == \E i \in 1..Len(FiveFields) : FiveFields[i] \notin props

\* The first of the five fields, in the order above, that is not among props.
FirstMissing(props) ==
    FiveFields[CHOOSE i \in 1..Len(FiveFields) :
                  /\ FiveFields[i] \notin props
                  /\ \A k \in 1..(i - 1) : FiveFields[k] \in props]

\* C11: add and parseEmojiData throw for every object that lacks one of the
\* five fields, with a message that names the first field lacking; the add
\* leaves the list and the storage item as they were.
C11_ValidationCoverage ==
    [][/\ \A emoji \in ValidationInputs :
             (emoji.type = "object" /\ LacksAField(emoji.props) /\ Add(emoji))
                => /\ last'.ret = "throw"
                   /\ last'.err = "Emoji object missing required property: "
                                        \o FirstMissing(emoji.props)
                   /\ recentEmojis' = recentEmojis
                   /\ storage' = storage
       /\ (lastParse' # NoParse /\ LacksAField(lastParse'.input.props))
             => /\ lastParse'.ret = "throw"
                /\ lastParse'.err = "Missing required field: "
                                        \o FirstMissing(lastParse'.input.props)]_vars

\* An add of an object without name and codepoint was rejected, naming name,
\* with entries in the list and in storage, after parseEmojiData rejected a
\* record without keywords and codepoint, naming keywords.
C11_Witness ==
    /\ last.op = "add" /\ last.ret = "throw"
    /\ last.err = "Emoji object missing required property: name"
    /\ last.arg = "b"
    /\ recentEmojis # <<>>
    /\ storage.kind = "doc" /\ storage.emojis # <<>>
    /\ lastParse.ret = "throw"
    /\ lastParse.err = "Missing required field: keywords"

(***************************************************************************)
(* EmojiCopyManager (C12-C19).  lastCopy is the call the step into the     *)
(* state finished, so the list and the item of the state are those the     *)
(* call left.                                                              *)
(***************************************************************************)
\* The unicodes RecentlyUsed.get() would return in the state.
GetShows ==
    IF isLoaded THEN [i \in 1..Len(recentEmojis) |-> recentEmojis[i].unicode]
    ELSE [i \in 1..Len(ValidPrefix(storage, maxEmojis)) |-> ValidPrefix(storage, maxEmojis)[i].unicode]

\* C12: a copyEmoji of an emoji with the five fields, the clipboard
\* collaborator reporting success and addToRecent set, returns true and
\* leaves the emoji at index 0 of get(), and at no other index.
C12_CopiedEmojiFirst ==
    (lastCopy # NoCopy /\ HasAllFive(lastCopy.emoji) /\ lastCopy.clipboard = "true"
        /\ lastCopy.addToRecent)
        => /\ lastCopy.ret = "true"
           /\ GetShows # <<>>
           /\ GetShows[1] = lastCopy.emoji.unicode
           /\ \A i \in 2..Len(GetShows) : GetShows[i] # lastCopy.emoji.unicode

\* Such a copy of "b" finished with get() showing a, b before it.
C12_Witness ==
    /\ lastCopy # NoCopy
    /\ lastCopy.emoji = Emoji("b") /\ lastCopy.clipboard = "true" /\ lastCopy.addToRecent
    /\ last.op = "add" /\ last.pre = <<"a", "b">>
    /\ GetShows = <<"b", "a">>

\* C13: a step of copyEmoji other than the end of a call whose clipboard
\* operation reported success with addToRecent set leaves what get() shows
\* and the storage item unchanged.
C13_FrameOfCopy ==
    [][~(lastCopy' # NoCopy /\ lastCopy'.clipboard = "true" /\ lastCopy'.addToRecent)
          => (GetShows' = GetShows /\ storage' = storage)]_vars

\* A call ended with addToRecent false, with a clipboard result of false, or
\* with a throwing clipboard collaborator; get() shows another emoji than
\* the one of the call at index 0, and the item is a document.
C13_Witness ==
    /\ lastCopy # NoCopy /\ lastCopy.clipboard # "none"
    /\ (~lastCopy.addToRecent \/ lastCopy.clipboard \in {"false", "throw"})
    /\ lastCopy.emoji = Emoji("b")
    /\ GetShows = <<"a", "b">>
    /\ storage.kind = "doc"

\* C14: a copyEmoji call the clipboard collaborator answered with a boolean
\* returns that boolean, and the event it dispatched is a 'copy' event with
\* the same success value and the emoji.
C14_ReturnsClipboardResult ==
    (lastCopy # NoCopy /\ lastCopy.clipboard \in {"true", "false"})
        => /\ lastCopy.ret = lastCopy.clipboard
           /\ Len(lastCopy.events) = 1
           /\ lastCopy.events[1].type = "copy"
           /\ lastCopy.events[1].success = (lastCopy.clipboard = "true")
           /\ lastCopy.events[1].emoji = lastCopy.emoji

\* A call returned false and two listeners got its event.
C14_Witness ==
    /\ lastCopy # NoCopy
    /\ lastCopy.clipboard = "false" /\ lastCopy.ret = "false"
    /\ Len(lastCopy.events) = 1
    /\ Len(lastCopy.events[1].called) = 2
    /\ ~lastCopy.events[1].success

\* The listeners an event went to are those registered when its dispatch began.
ReachedAll(event) ==
    /\ \A i \in 1..Len(event.registered) :
          \E j \in 1..Len(event.called) : event.called[j] = event.registered[i]
    /\ \A j \in 1..Len(event.called) :
          \E i \in 1..Len(event.registered) : event.registered[i] = event.called[j]

\* C15 as claimed: when the clipboard collaborator throws, every registered
\* listener gets one 'copy' event with success false and the message of the
\* error, and the call throws that error.
C15_ThrowNotifiesAll ==
    (lastCopy # NoCopy /\ lastCopy.clipboard = "throw")
        => /\ lastCopy.ret = "throw"
           /\ lastCopy.err = ClipboardError
           /\ Len(lastCopy.events) = 1
           /\ ~lastCopy.events[1].success
           /\ lastCopy.events[1].error = ClipboardError
           /\ ReachedAll(lastCopy.events[1])

\* C16: a copy whose clipboard operation succeeded and whose
\* RecentlyUsed.add threw or returned false still returns true, with one
\* event of success true and no error.
C16_AddFailureSwallowed ==
    (lastCopy # NoCopy /\ lastCopy.clipboard = "true" /\ lastCopy.addToRecent /\ last.op = "add"
        /\ last.ret \in {"throw", "false"})
        => /\ lastCopy.ret = "true"
           /\ lastCopy.err = ""
           /\ Len(lastCopy.events) = 1
           /\ lastCopy.events[1].success
           /\ lastCopy.events[1].error = ""

\* add threw for an emoji without name during a copy with a listener.
C16_Witness ==
    /\ lastCopy # NoCopy
    /\ lastCopy.clipboard = "true" /\ lastCopy.addToRecent
    /\ ~HasAllFive(lastCopy.emoji)
    /\ last.op = "add" /\ last.ret = "throw"
    /\ last.err = "Emoji object missing required property: name"
    /\ Len(lastCopy.events) = 1 /\ lastCopy.events[1].called # <<>>

\* C17: a copyEmoji of a value that is no object, or of an object without
\* unicode, throws a validation error; the clipboard collaborator is not
\* called, no event is dispatched, the list and the item stay as they were.
C17_InvalidCopyRejected ==
    [][(lastCopy' # NoCopy
          /\ (lastCopy'.emoji.type # "object" \/ "unicode" \notin lastCopy'.emoji.props))
          => /\ lastCopy'.ret = "throw"
             /\ lastCopy'.err \in {"Invalid emoji object provided",
                                   "Emoji object must have unicode property"}
             /\ lastCopy'.clipboard = "none"
             /\ lastCopy'.events = <<>>
             /\ UNCHANGED <<recentEmojis, storage, calls, copyListeners>>]_vars

\* An object without unicode was rejected with listeners registered and an
\* entry in the list.
C17_Witness ==
    /\ lastCopy.ret = "throw"
    /\ lastCopy.err = "Emoji object must have unicode property"
    /\ lastCopy.clipboard = "none"
    /\ copyListeners # <<>>
    /\ recentEmojis # <<>>

\* C18 as claimed: every copy event goes to the listeners registered, and
\* not unregistered, when it is dispatched, and to no other.
C18_NotifiedWhileRegistered ==
    lastCopy # NoCopy => \A n \in 1..Len(lastCopy.events) : ReachedAll(lastCopy.events[n])

\* C19: with a throwing listener registered, and none that unregisters
\* itself, every registered listener is called, in the order of
\* registration; and with a throwing listener registered, the call
\* dispatches one event and returns the boolean of the clipboard
\* collaborator, or throws its error.
C19_ListenerIsolation ==
    lastCopy # NoCopy => \A n \in 1..Len(lastCopy.events) :
        LET event == lastCopy.events[n]
        IN (\E i \in 1..Len(event.registered) : event.registered[i] = "throws")
              => /\ (\A i \in 1..Len(event.registered) : event.registered[i] # "once")
                        => event.called = event.registered
                 /\ Len(lastCopy.events) = 1
                 /\ lastCopy.clipboard \in {"true", "false"} => lastCopy.ret = lastCopy.clipboard
                 /\ lastCopy.clipboard = "throw"
                        => (lastCopy.ret = "throw" /\ lastCopy.err = ClipboardError)

\* A call returned true although the first of its two listeners threw.
C19_Witness ==
    /\ lastCopy.ret = "true"
    /\ Len(lastCopy.events) = 1
    /\ lastCopy.events[1].called = <<"throws", "plain">>

(***************************************************************************)
(* EmojiData (C20).                                                        *)
(***************************************************************************)
\* The step is a call of loadEmojis: it leaves a record of the call and
\* moves no call in flight on.
LoadEmojisCalled ==
    /\ lastLoad'.op = "loadEmojis"
    /\ \A id \in LoadIds : loads[id].phase # "idle" => loads'[id] = loads[id]

\* C20: a loadEmojis call made once a load has completed, and before a
\* reload, returns the array the catalog holds, calls fetch no more, and
\* leaves the catalog as it was.
C20_LoadIdempotent ==
    [][(emojisLoaded /\ LoadEmojisCalled)
          => /\ lastLoad'.ret = "array"
             /\ lastLoad'.value = emojis
             /\ ~lastLoad'.fetched
             /\ loads' = loads
             /\ UNCHANGED <<emojis, categories, emojisLoaded>>]_vars

\* A loadEmojis call returned the five emojis a completed load had left.
C20_Witness ==
    /\ lastLoad.op = "loadEmojis" /\ lastLoad.foundLoaded
    /\ lastLoad.ret = "array"
    /\ lastLoad.value = <<Sun, Orca, Dog, Cat, Cab>>
    /\ emojisLoaded

(***************************************************************************)
(* EmojiData: loads that overlap or fail, queries before a load (C21-C24).  *)
(***************************************************************************)
\* Some loadEmojis call is between its fetch and its return.
LoadInFlight == \E id \in LoadIds : loads[id].phase # "idle"

\* C21: a loadEmojis call made while another one is in flight calls fetch
\* no second time; it waits for the operation in flight.
C21_OverlappingLoadsShareFetch ==
    [][(LoadInFlight /\ LoadEmojisCalled) => ~lastLoad'.fetched]_vars

\* What the provider gave the call in slot id is no catalog document: the
\* fetch was rejected, the response not ok, the body no JSON, or the
\* document without an "emojis" array.
GotNoCatalog(id, response) ==
    \/ /\ loads[id].phase = "fetch"
       /\ response.kind \in {"network", "httperror"}
    \/ /\ loads[id].phase = "json"
       /\ response = loads[id].response
       /\ response.kind \in {"badjson", "noemojis"}

\* C22: a loadEmojis call that gets no catalog document from the provider
\* throws and leaves the catalog as loaded or unloaded as it was; a call
\* made while the catalog is unloaded fetches.
C22_FailedLoadStaysUnloaded ==
    [][/\ \A id \in LoadIds, response \in Responses :
             (GotNoCatalog(id, response) /\ loads'[id] = NoLoad)
                 => /\ lastLoad'.ret = "throw"
                    /\ emojisLoaded' = emojisLoaded
       /\ (~emojisLoaded /\ LoadEmojisCalled) => lastLoad'.fetched]_vars

\* C23: a query made while the catalog is not loaded throws the not-loaded
\* error and returns nothing.
C23_QueriesNeedLoaded ==
    (lastQuery # NoQuery /\ ~lastQuery.loaded)
        => /\ lastQuery.result.ret = "throw"
           /\ lastQuery.result.err = "Emoji data not loaded. Call loadEmojis() first."

\* C24: every record of a loaded catalog has the five required fields.
C24_LoadedRecordsValid ==
    emojisLoaded => \A i \in 1..Len(emojis) : ~LacksAField(emojis[i].props)

(***************************************************************************)
(* EmojiData: search and suggestions (C25-C27).  The text operators here   *)
(* are the properties' own.                                                *)
(***************************************************************************)
Lowered(text) ==
    [i \in 1..Len(text) |-> CASE text[i] = "A" -> "a"
                              [] text[i] = "C" -> "c"
                              [] text[i] = "D" -> "d"
                              [] OTHER -> text[i]]

RECURSIVE Stripped(_)
Stripped(text) ==
    IF Len(text) = 0 THEN text
    ELSE IF Head(text) = " " THEN Stripped(Tail(text))
    ELSE IF text[Len(text)] = " " THEN Stripped(SubSeq(text, 1, Len(text) - 1))
    ELSE text

\* The query is null, undefined, empty or blanks only.
Blank(query) == query.type # "string" \/ \A i \in 1..Len(query.text) : query.text[i] = " "

TermOf(query) == Stripped(Lowered(query.text))

Occurs(term, text) == \E i \in 1..Len(text), j \in 1..Len(text) : SubSeq(text, i, j) = term

Begins(term, text) == \E j \in 1..Len(text) : SubSeq(text, 1, j) = term

\* The keywords of the emoji whose lowercase contains the term
KeywordHits(emoji, term) ==
    {k \in 1..Len(emoji.keywords) : Occurs(term, Lowered(emoji.keywords[k]))}

Matches(emoji, term) == Occurs(term, Lowered(emoji.name)) \/ KeywordHits(emoji, term) # {}

\* The latest step was the named query, made on a loaded catalog.
Queried(op) == lastQuery # NoQuery /\ lastQuery.op = op /\ lastQuery.loaded

\* C25: on a loaded catalog search returns the whole catalog in its order
\* for a blank query, and otherwise the emojis whose lowercased name or one
\* of whose lowercased keywords contains the lowercased, trimmed query,
\* each once.
C25_SearchMembership ==
    Queried("search")
        => /\ lastQuery.result.ret = "array"
           /\ IF Blank(lastQuery.arg) THEN lastQuery.result.value = emojis
              ELSE LET found == lastQuery.result.value
                       hits == {i \in 1..Len(emojis) : Matches(emojis[i], TermOf(lastQuery.arg))}
                   IN /\ {found[k].emoji : k \in 1..Len(found)} = {emojis[i] : i \in hits}
                      /\ Len(found) = Cardinality(hits)

\* The four facets the ranking goes by, the truth values as 1 and 0
Facets(emoji, term) ==
    <<IF Lowered(emoji.name) = term THEN 1 ELSE 0,
      IF Begins(term, Lowered(emoji.name)) THEN 1 ELSE 0,
      IF Occurs(term, Lowered(emoji.name)) THEN 1 ELSE 0,
      Cardinality(KeywordHits(emoji, term))>>

\* f is lexicographically greater than g.
LexGreater(f, g) ==
    \E n \in 1..4 : f[n] > g[n] /\ \A m \in 1..(n - 1) : f[m] = g[m]

PlaceInCatalog(emoji) == CHOOSE i \in 1..Len(emojis) : emojis[i] = emoji

\* C26: in the results of a search for a term that is not blank, a result
\* never has facets lexicographically smaller than a later one, results of
\* equal facets are in catalog order, and when the name of some emoji is
\* the term the first result is an emoji of that name.
C26_SearchRanking ==
    (Queried("search") /\ ~Blank(lastQuery.arg))
        => LET found == lastQuery.result.value
               term == TermOf(lastQuery.arg)
           IN /\ \A k, l \in 1..Len(found) :
                    k < l => \/ LexGreater(Facets(found[k].emoji, term), Facets(found[l].emoji, term))
                             \/ /\ Facets(found[k].emoji, term) = Facets(found[l].emoji, term)
                                /\ PlaceInCatalog(found[k].emoji) < PlaceInCatalog(found[l].emoji)
              /\ (\E i \in 1..Len(emojis) : Lowered(emojis[i].name) = term)
                    => /\ Len(found) >= 1
                       /\ Lowered(found[1].emoji.name) = term
                       /\ found[1].matchInfo.exactNameMatch

\* The names and keywords of the emojis from the i-th on, each name before
\* its keywords
RECURSIVE NamesAndKeywords(_, _)
NamesAndKeywords(list, i) ==
    IF i > Len(list) THEN <<>>
    ELSE (IF "name" \in list[i].props THEN <<list[i].name>> ELSE <<>>)
             \o list[i].keywords \o NamesAndKeywords(list, i + 1)

\* The sequence without the elements that occurred earlier in it
FirstOccurrences(seq) ==
    LET firsts == {i \in 1..Len(seq) : \A j \in 1..(i - 1) : seq[j] # seq[i]}
        at == SelectSeq([i \in 1..Len(seq) |-> i], LAMBDA i : i \in firsts)
    IN [k \in 1..Len(at) |-> seq[at[k]]]

\* C27: on a loaded catalog getSearchSuggestions returns nothing for a
\* blank query, and otherwise the first limit of the distinct names and
\* keywords whose lowercase starts with the lowercased, trimmed query, in
\* catalog order, each name before its emoji's keywords.
C27_Suggestions ==
    Queried("getSearchSuggestions")
        => /\ lastQuery.result.ret = "array"
           /\ lastQuery.result.value =
                 IF Blank(lastQuery.arg) THEN <<>>
                 ELSE FirstN(FirstOccurrences(
                                SelectSeq(NamesAndKeywords(emojis, 1),
                                          LAMBDA str : Begins(TermOf(lastQuery.arg), Lowered(str)))),
                             lastQuery.limit)

(***************************************************************************)
(* EmojiData: categories (C28, C29).                                       *)
(***************************************************************************)
\* The emojis of the catalog with the category, in catalog order
OfCategory(c) ==
    LET at == SelectSeq([i \in 1..Len(emojis) |-> i], LAMBDA i : emojis[i].category = c)
    IN [k \in 1..Len(at) |-> emojis[at[k]]]

NonEmptyString(arg) == arg.type = "string" /\ arg.text # ""

Occurring == {emojis[i].category : i \in {j \in 1..Len(emojis) : "category" \in emojis[j].props}}

\* The place of a category string among those in use, by code units
Rank == [animals |-> 1, food |-> 2, nature |-> 3, travel |-> 4]

Entries == [i \in 1..Len(recentEmojis) |-> recentEmojis[i]]

Shown ==
    IF isLoaded THEN UnicodesOf(recentEmojis)
    ELSE IF storage.kind = "doc" THEN UnicodesOf(ValidPrefix(storage, maxEmojis))
    ELSE <<>>

\* C31: when the list is the one the latest save() wrote, reset() followed
\* by load() restores it: get() then returns the entries it returned
\* before the reset.
C31_ResetLoadRestores ==
    [][(last'.op = "reset;load" /\ savedList = recentEmojis /\ Len(recentEmojis) > 0)
          => Shown' = UnicodesOf(recentEmojis)]_vars

\* The unicodes of a list without those equal to u, order kept.
Others(us, u) == SelectSeq(us, LAMBDA x : x # u)

\* A remove(u) step that returned.
Removes == last'.op = "remove" /\ last'.err = ""

\* What every returning remove(u) does to the list: true iff u was shown,
\* u gone afterwards, the others in their order.
RemoveOnList ==
    /\ (last'.ret = "true") <=> (last'.arg \in Range(Shown))
    /\ last'.arg \notin Range(Shown')
    /\ Shown' = Others(Shown, last'.arg)
    /\ UnicodesOf(recentEmojis') = Shown'

\* C32 as claimed: a returning remove(u) returns true iff u was in the
\* list, leaves the list without u and the others in order, and the stored
\* entries equal the list; without such an entry the item is untouched.
C32_RemovePersists ==
    [][Removes =>
          /\ RemoveOnList
          /\ (last'.arg \in Range(Shown)) => StoredEntries' = recentEmojis'
          /\ (last'.arg \notin Range(Shown)) => storage' = storage]_vars

\* C32 amended: as above, but the stored entries equal the list only when
\* the write was accepted; a refused write leaves the item as it was and
\* remove still returns true.
C32_RemovePersistsWhenStoreAccepts ==
    [][Removes =>
          /\ RemoveOnList
          /\ (last'.arg \in Range(Shown)) =>
                \/ last'.save = "ok" /\ StoredEntries' = recentEmojis'
                \/ last'.save = "failed" /\ storage' = storage
          /\ (last'.arg \notin Range(Shown)) => storage' = storage /\ last'.save = "none"]_vars

\* remove of the first of two entries has returned true and was written.
C32_Witness ==
    /\ last.op = "remove" /\ last.ret = "true" /\ last.save = "ok"
    /\ Len(last.pre) = 2 /\ last.arg = last.pre[1]
    /\ UnicodesOf(recentEmojis) = <<last.pre[2]>>
    /\ StoredEntries = recentEmojis

\* C33: setMaxEmojis(n) with n < 1 throws and leaves capacity, list and
\* item as they were; with n >= 1 the capacity becomes n and a list longer
\* than n is cut to its first n entries, which are then the stored entries.
\* Stated for writes the store does not refuse.
C33_SetMaxEmojis ==
    [][last'.op = "setMaxEmojis" =>
          IF last'.n < 1
          THEN /\ last'.err # ""
               /\ maxEmojis' = maxEmojis /\ recentEmojis' = recentEmojis /\ storage' = storage
          ELSE /\ last'.err = ""
               /\ maxEmojis' = last'.n
               /\ Len(Shown) > last'.n =>
                     /\ Shown' = FirstN(Shown, last'.n)
                     /\ last'.save # "failed" => UnicodesOf(StoredEntries') = Shown']_vars

(***************************************************************************)
(* EmojiCopyManager: order of the steps, dispatch, overlapping calls       *)
(* (C34, C36-C38).                                                         *)
(***************************************************************************)
\* The call the step finished dispatched a success event that reached a
\* listener, for an emoji with the five properties and addToRecent set.
SuccessObserved ==
    /\ lastCopy # NoCopy
    /\ HasAllFive(lastCopy.emoji) /\ lastCopy.addToRecent
    /\ Len(lastCopy.events) >= 1
    /\ lastCopy.events[1].success /\ lastCopy.events[1].called # <<>>

C35_ManagerKeepsRule ==
    /\ Len(recentlyUsed) <= maxItems
    /\ \A i, j \in 1..Len(recentlyUsed) :
          recentlyUsed[i].emoji = recentlyUsed[j].emoji => i = j

\* C36: every listener that was registered when the dispatch of an event
\* began, and that does not unregister itself, is called for that event,
\* whatever the other listeners do during the dispatch.
C36_ReentrantDispatch ==
    lastCopy # NoCopy =>
        \A n \in 1..Len(lastCopy.events) :
            \A i \in 1..Len(lastCopy.events[n].registered) :
                lastCopy.events[n].registered[i] # "once"
                    => lastCopy.events[n].registered[i] \in Range(lastCopy.events[n].called)

\* How often the listener was called by the events of a call.
RECURSIVE TimesCalled(_, _)
TimesCalled(events, listener) ==
    IF events = <<>> THEN 0
    ELSE Cardinality({j \in 1..Len(Head(events).called) : Head(events).called[j] = listener})
            + TimesCalled(Tail(events), listener)

\* C37: a copyEmoji call that passed the validation has called every
\* listener registered when it dispatched exactly once with a 'copy' event,
\* and has not dispatched both a success and a failure event.
C37_NotifiedExactlyOnce ==
    (lastCopy # NoCopy /\ lastCopy.clipboard # "none")
        => /\ Len(lastCopy.events) >= 1
           /\ \A n \in 1..Len(lastCopy.events) : lastCopy.events[n].type = "copy"
           /\ \A i \in 1..Len(lastCopy.events[1].registered) :
                 TimesCalled(lastCopy.events, lastCopy.events[1].registered[i]) = 1
           /\ ~\E m, n \in 1..Len(lastCopy.events) :
                 lastCopy.events[m].success /\ ~lastCopy.events[n].success

\* The call the step finished and the one finished before it overlapped,
\* both after a successful clipboard operation, for two different emojis.
OverlappedPair ==
    /\ lastCopy # NoCopy
    /\ Len(finished) = 2
    /\ finished[2].id \in finished[1].with
    /\ finished[1].outcome = "true" /\ finished[2].outcome = "true"
    /\ finished[1].emoji.unicode # finished[2].emoji.unicode

\* How often the unicode is in the list.
Occurrences(u) == Cardinality({i \in 1..Len(recentEmojis) : recentEmojis[i].unicode = u})

\* C38 as claimed: after two overlapping successful copies of different
\* emojis the list holds each of them once, is no longer than maxEmojis,
\* begins with the emoji whose clipboard operation completed last, and
\* equals the stored entries.
C38_OverlappingCopies ==
    OverlappedPair
        => /\ Occurrences(finished[1].emoji.unicode) = 1
           /\ Occurrences(finished[2].emoji.unicode) = 1
           /\ Len(recentEmojis) <= maxEmojis
           /\ recentEmojis[1].unicode = finished[2].emoji.unicode
           /\ StoredEntries = recentEmojis

\* C38 amended: the emoji whose clipboard operation completed last is at
\* index 0 and nowhere else and the list is no longer than maxEmojis; the
\* other emoji is in the list once if maxEmojis is at least 2; the stored
\* entries equal the list if the store accepted the write of the later add.
C38_OverlappingCopiesWithinCapacity ==
    OverlappedPair
        => /\ Len(recentEmojis) <= maxEmojis
           /\ recentEmojis[1].unicode = finished[2].emoji.unicode
           /\ Occurrences(finished[2].emoji.unicode) = 1
           /\ maxEmojis >= 2 => Occurrences(finished[1].emoji.unicode) = 1
           /\ maxEmojis < 2 => Occurrences(finished[1].emoji.unicode) = 0
           /\ (last.op = "add" /\ last.save = "ok") => StoredEntries = recentEmojis

\* The call for "c" was started after the call for "b" and finished before
\* it; the list begins with "b", then "c", and is stored.
C38_Witness ==
    /\ OverlappedPair
    /\ finished[1].id = 2 /\ finished[1].emoji.unicode = "c"
    /\ finished[2].id = 1 /\ finished[2].emoji.unicode = "b"
    /\ UnicodesOf(recentEmojis) = <<"b", "c">>
    /\ StoredEntries = recentEmojis

(***************************************************************************)
(* EmojiData: what a load leaves behind (C39).                             *)
(***************************************************************************)
\* C39: while isLoaded() is false the emoji array and the category set are
\* empty.
C39_NoPartialCatalog == ~emojisLoaded => (emojis = <<>> /\ categories = {})

(***************************************************************************)
(* EmojiGrid (C40).                                                        *)
(***************************************************************************)
\* The emoji passes the grid's filters.
PassesFilters(emoji) ==
    /\ currentCategory = "all" \/ emoji.category = currentCategory
    /\ Blank(searchQuery) \/ Matches(emoji, TermOf(searchQuery))

\* C40: while no loadEmojis() of the grid is waiting, filteredEmojis is the
\* grid's emojis restricted to the category and to the matches of the
\* search text, in their order; and no filter call has thrown.
C40_GridFilterConsistency ==
    /\ gridLoad = "idle" => filteredEmojis = SelectSeq(gridEmojis, PassesFilters)
    /\ lastGrid.err = ""

TypeOK ==
    /\ maxEmojis \in 1..MaxLimit
    /\ isLoaded \in BOOLEAN
    /\ \A i \in 1..Len(recentEmojis) : IsValidEmojiObject(recentEmojis[i])

====
